---- MODULE Spec2Model ----
(***************************************************************************)
(* Protocol engines of the qkd repository: the paired sender / receiver    *)
(* state machines (KeySenderProtocol.run / KeyReceiverProtocol.run) of     *)
(* each protocol variant, run over one quantum channel (alice -> bob) and  *)
(* one bidirectional classical connection, as built by TwoPartyNetwork.    *)
(*                                                                         *)
(* Each action is the code of one engine between two suspension points     *)
(* (yield), or one of the handlers it binds.  The two engines communicate  *)
(* only through the channels.  Each channel is FIFO; the relative order of *)
(* deliveries on different channels is not fixed: the quantum delay is set *)
(* by the fibre length the network is built with, the classical delay is   *)
(* constant.  A lost qubit produces no arrival event.  The classical       *)
(* channels deliver every message.  An await on a port returns when the    *)
(* next message arrives on it; rx_input gives that message.                *)
(***************************************************************************)
EXTENDS Integers, Sequences, FiniteSets, TLC

VARIABLES
    variant,          \* which engine pair runs in this session
    key_size,         \* KeySenderProtocol.key_size = KeyReceiverProtocol.key_size
    lossy,            \* network configuration: the fibre may lose a qubit
    noisy,            \* network configuration: the qubit state may be altered
    detector_sync,    \* network configuration: a detector reports within the input handler
    s_pc,             \* sender: suspension point of run()
    secret_key,       \* sender: secret_key
    s_bases,          \* sender: bases
    s_i,              \* sender: loop index i of the transmit loop
    s_key,            \* sender: self.key
    s_cin,            \* sender: message on the classical port's input
    s_qmem,           \* sender: qubits held by its quantum memory
    s_results,        \* sender: results (E91)
    r_pc,             \* receiver: suspension point of run()
    r_bases,          \* receiver: bases
    r_i,              \* receiver: loop index i (strict engines)
    results,          \* receiver: results
    kept_indices,     \* receiver: kept_indices (B92)
    qubits_received,  \* receiver: qubits_received (free-running engines)
    r_key,            \* receiver: self.key
    r_cin,            \* receiver: message on the classical port's input
    r_qmem,           \* receiver: qubits held by its memory / detectors, unmeasured
    q_chan,           \* quantum channel alice -> bob: qubits in flight
    c_ab,             \* classical channel alice -> bob: messages in flight
    c_ba,             \* classical channel bob -> alice: messages in flight
    sent,             \* history: messages put on the classical channels, in order
    lost,             \* history: indices of the qubits lost in transit
    driver,           \* experiment: which run_experiment (or the builder alone) runs
    args,             \* experiment: the arguments of the call
    exp_pc,           \* experiment: position in run_experiment
    run,              \* experiment: runs of the loop finished
    net,              \* experiment: the network of the current run
    alice_keys,       \* experiment: alice_keys
    bob_keys,         \* experiment: bob_keys
    stats             \* experiment: _stats

vars == << variant, key_size, lossy, noisy, detector_sync,
           s_pc, secret_key, s_bases, s_i, s_key, s_cin, s_qmem, s_results,
           r_pc, r_bases, r_i, results, kept_indices, qubits_received, r_key, r_cin, r_qmem,
           q_chan, c_ab, c_ba, sent, lost,
           driver, args, exp_pc, run, net, alice_keys, bob_keys, stats >>

config == << variant, key_size, lossy, noisy, detector_sync >>
senderVars == << s_pc, secret_key, s_bases, s_i, s_key, s_cin, s_qmem, s_results >>
receiverVars == << r_pc, r_bases, r_i, results, kept_indices, qubits_received,
                  r_key, r_cin, r_qmem >>
experimentVars == << driver, args, exp_pc, run, net, alice_keys, bob_keys, stats >>

----------------------------------------------------------------------------
(* Bounds *)

MaxKeySize == 2

----------------------------------------------------------------------------
(* Values *)

Bit == {0, 1}

\* self.key = None
None == << -1 >>

StrictVariants == {"bb84", "b92"}
FreeVariants == {"bb84_realistic"}
E91Variants == {"e91", "e91_realistic"}
Variants == StrictVariants \cup FreeVariants \cup E91Variants \cup {"b92_realistic"}

\* key_size of the concrete BB84 scenario (qkd/bb84/bb84.py __main__)
ScenarioKeySize == 15

\* a sample of the bit sequences of length n: the two constant ones and
\* the alternating one that starts with 0
SampleSeqs(n) ==
    {[i \in 1..n |-> c] : c \in Bit} \cup {[i \in 1..n |-> (i + 1) % 2]}

\* the values np.random.randint(2, size=n) can return: every bit sequence
\* of length n up to MaxKeySize, a sample of them for longer keys
BitSeqs(n) == IF n <= MaxKeySize THEN [1..n -> Bit] ELSE SampleSeqs(n)

\* Python's seq[i] with a 0-based index
At(seq, i) == seq[i + 1]

\* a classical message: what was passed to tx_output
Msg(kind, items) == [kind |-> kind, items |-> items]

\* no message has arrived on a port yet
NoMsg == Msg("none", << >>)

\* the messages of a session
ACK == Msg("ACK", << "ACK" >>)
DONE == Msg("DONE", << "DONE" >>)
BasesMsg(bases) == Msg("bases", << bases >>)
IndexMsg(indices) == Msg("indices", indices)

----------------------------------------------------------------------------
(* Qubits.  A qubit is one of the four states the engines prepare:        *)
(* "0", "1" (eigenstates of Z) and "+", "-" (eigenstates of X).            *)

INSTR_INIT == "0"

\* mutant: the bit flip leaves the state as it is
INSTR_X_Keep(st) == st

\* instr.INSTR_X on the states the engines prepare
INSTR_X(st) ==
    CASE st = "0" -> "1"
      [] st = "1" -> "0"
      [] OTHER -> st

INSTR_H(st) ==
    CASE st = "0" -> "+"
      [] st = "+" -> "0"
      [] st = "1" -> "-"
      [] st = "-" -> "1"

\* mutant: the basis rotation is applied before the bit flip
EncodeQubitProgram_HFirst(base, bit) ==
    LET q0 == INSTR_INIT
        q1 == IF base = 1 THEN INSTR_H(q0) ELSE q0
    IN  IF bit = 1 THEN INSTR_X(q1) ELSE q1

\* EncodeQubitProgram.program: INIT, X if bit = 1, H if base = 1
EncodeQubitProgram(base, bit) ==
    LET q0 == INSTR_INIT
        q1 == IF bit = 1 THEN INSTR_X(q0) ELSE q0
    IN  IF base = 1 THEN INSTR_H(q1) ELSE q1

\* the outcomes a measurement of state st can give: basis 0 measures Z
\* (INSTR_MEASURE), basis 1 measures X (INSTR_MEASURE_X)
MeasureOutcomes(st, basis, noise) ==
    IF noise THEN Bit
    ELSE IF basis = 0
         THEN (CASE st = "0" -> {0} [] st = "1" -> {1} [] OTHER -> Bit)
         ELSE (CASE st = "+" -> {0} [] st = "-" -> {1} [] OTHER -> Bit)

\* a qubit in a memory or on the fibre; idx is the round that prepared it
Qubit(idx, st) == [idx |-> idx, st |-> st]

\* QuantumChannel with FibreLossModel: the qubit is delivered or is lost
LossOutcomes == IF lossy THEN BOOLEAN ELSE {FALSE}

----------------------------------------------------------------------------
(* Sifting *)

\* mutant: the comparison is inverted
RECURSIVE MatchLoop_Differ(_, _, _, _)
MatchLoop_Differ(bob_bases, bases, i, n) ==
    IF i >= n THEN << >>
    ELSE (IF At(bob_bases, i) # At(bases, i) THEN << i >> ELSE << >>)
         \o MatchLoop_Differ(bob_bases, bases, i + 1, n)

\* for i in range(key_size): if bob_bases[i] == bases[i]: append(i)
RECURSIVE MatchLoop(_, _, _, _)
MatchLoop(bob_bases, bases, i, n) ==
    IF i >= n THEN << >>
    ELSE (IF At(bob_bases, i) = At(bases, i) THEN << i >> ELSE << >>)
         \o MatchLoop(bob_bases, bases, i + 1, n)

\* mutant: the loop starts at index 1
MatchedIndices_FromOne(bob_bases, bases, n) == MatchLoop(bob_bases, bases, 1, n)

\* matched_indices after the loop for i in range(self.key_size)
MatchedIndices(bob_bases, bases, n) == MatchLoop(bob_bases, bases, 0, n)

\* bob_bases[i] raises IndexError when the reply is shorter than key_size
MatchIndexError(bob_bases, n) == Len(bob_bases) < n

\* mutant: the key is built back to front
RECURSIVE SelectKey_Reversed(_, _)
SelectKey_Reversed(seq, indices) ==
    IF indices = << >> THEN << >>
    ELSE SelectKey_Reversed(seq, Tail(indices)) \o << At(seq, Head(indices)) >>

\* for i in indices: final_key.append(seq[i])
RECURSIVE SelectKey(_, _)
SelectKey(seq, indices) ==
    IF indices = << >> THEN << >>
    ELSE << At(seq, Head(indices)) >> \o SelectKey(seq, Tail(indices))

\* seq[i] raises IndexError when some index is out of range
SelectIndexError(seq, indices) ==
    \E k \in 1..Len(indices) : indices[k] >= Len(seq)

----------------------------------------------------------------------------
(* Channels *)

\* mutant: the channel also delivers a lost qubit (transmit_empty_items)
QSend_DeliverLost(q, isLost) ==
    /\ q_chan' = Append(q_chan, q)
    /\ lost' = IF isLost THEN lost \cup {q.idx} ELSE lost

\* port.tx_output(q) on the quantum port
QSend(q, isLost) ==
    /\ q_chan' = IF isLost THEN q_chan ELSE Append(q_chan, q)
    /\ lost' = IF isLost THEN lost \cup {q.idx} ELSE lost

\* port.tx_output(m) on the sender's classical port
SenderSend(m) ==
    /\ c_ab' = Append(c_ab, m)
    /\ sent' = Append(sent, [from |-> "alice", msg |-> m])

\* port.tx_output(m) on the receiver's classical port
ReceiverSend(m) ==
    /\ c_ba' = Append(c_ba, m)
    /\ sent' = Append(sent, [from |-> "bob", msg |-> m])

----------------------------------------------------------------------------
(* Initial state: a network and two engines constructed, none started *)

\* the engines' fields after __init__, the channels empty
Constructed ==
    /\ s_pc = "init" /\ r_pc = "init"
    /\ secret_key = << >> /\ s_bases = << >> /\ r_bases = << >>
    /\ s_i = 0 /\ r_i = 0
    /\ s_key = None /\ r_key = None
    /\ s_cin = NoMsg /\ r_cin = NoMsg
    /\ s_qmem = << >> /\ r_qmem = << >>
    /\ s_results = << >>
    /\ results = << >> /\ kept_indices = << >>
    /\ qubits_received = 0
    /\ q_chan = << >> /\ c_ab = << >> /\ c_ba = << >>
    /\ sent = << >>
    /\ lost = {}

\* no network and no statistics
NoNet ==
    [method |-> "none", positions |-> 0, loss |-> << >>, dephase_rate |-> 0,
     c_delay_ab |-> 0, c_delay_ba |-> 0,
     alice |-> {}, bob |-> {}, forward |-> FALSE]
NoStats ==
    [MISMATCHED_KEYS |-> -1, MATCHED_KEYS |-> -1, CORRECTED_MATCHED |-> -1,
     AVG_QBER |-> << >>]

\* a session that no experiment driver runs
NoExperiment ==
    /\ driver = "none" /\ args = << >> /\ exp_pc = "off" /\ run = 0
    /\ net = NoNet
    /\ alice_keys = << >> /\ bob_keys = << >>
    /\ stats = NoStats

Init ==
    /\ variant \in Variants
    /\ key_size \in 1..MaxKeySize
    /\ lossy \in BOOLEAN
    /\ noisy \in BOOLEAN
    /\ detector_sync \in (IF variant = "b92_realistic" THEN BOOLEAN ELSE {FALSE})
    /\ Constructed
    /\ NoExperiment

\* p1.start(); p2.start(); ns.sim_run(): both engines have run up to their
\* first suspension point before the first simulation event is processed
Running == s_pc # "init" /\ r_pc # "init"

----------------------------------------------------------------------------
(* Strict BB84: qkd/protocols/bb84/bb84.py *)

\* KeySenderProtocol.run up to the first yield: draw the secret key and the
\* bases, start encoding qubit 0
BB84_SenderStart ==
    /\ variant = "bb84" /\ s_pc = "init"
    /\ \E sk \in BitSeqs(key_size), bs \in BitSeqs(key_size) :
          /\ secret_key' = sk
          /\ s_bases' = bs
          /\ s_qmem' = << Qubit(0, EncodeQubitProgram(At(bs, 0), At(sk, 0))) >>
    /\ s_i' = 0
    /\ s_pc' = "encode"
    /\ UNCHANGED << config, experimentVars, s_results, s_key, s_cin, receiverVars, q_chan, c_ab, c_ba, sent, lost >>

\* mutant: the sender does not wait for the ACK before the next round
BB84_SenderTransmit_NoWait ==
    /\ variant = "bb84" /\ s_pc = "encode" /\ Running
    /\ \E isLost \in LossOutcomes : QSend(Head(s_qmem), isLost)
    /\ IF s_i < key_size - 1
       THEN /\ s_i' = s_i + 1
            /\ s_qmem' = << Qubit(s_i + 1, EncodeQubitProgram(At(s_bases, s_i + 1),
                                                             At(secret_key, s_i + 1))) >>
            /\ s_pc' = "encode"
       ELSE /\ s_i' = s_i
            /\ s_qmem' = Tail(s_qmem)
            /\ s_pc' = "await_bases"
    /\ UNCHANGED << config, experimentVars, s_results, secret_key, s_bases, s_key, s_cin,
                    receiverVars, c_ab, c_ba, sent >>

\* the encoding program has finished: pop the qubit, transmit it, then wait
\* for the ACK (or, after the last qubit, for the receiver's bases)
BB84_SenderTransmit ==
    /\ variant = "bb84" /\ s_pc = "encode" /\ Running
    /\ \E isLost \in LossOutcomes : QSend(Head(s_qmem), isLost)
    /\ s_qmem' = Tail(s_qmem)
    /\ s_pc' = IF s_i < key_size - 1 THEN "await_ack" ELSE "await_bases"
    /\ UNCHANGED << config, experimentVars, s_results, secret_key, s_bases, s_i, s_key, s_cin,
                    receiverVars, c_ab, c_ba, sent >>

\* mutant: the ACK that was read stays on the port's input
BB84_SenderAck_Keep ==
    /\ variant = "bb84" /\ s_pc = "await_ack" /\ Running
    /\ c_ba # << >>
    /\ s_cin' = Head(c_ba)
    /\ c_ba' = c_ba
    /\ s_i' = s_i + 1
    /\ s_qmem' = << Qubit(s_i + 1,
                          EncodeQubitProgram(At(s_bases, s_i + 1), At(secret_key, s_i + 1))) >>
    /\ s_pc' = "encode"
    /\ UNCHANGED << config, experimentVars, s_results, secret_key, s_bases, s_key, receiverVars,
                    q_chan, c_ab, sent, lost >>

\* a message arrives while the sender waits for the ACK: next round
BB84_SenderAck ==
    /\ variant = "bb84" /\ s_pc = "await_ack" /\ Running
    /\ c_ba # << >>
    /\ s_cin' = Head(c_ba)
    /\ c_ba' = Tail(c_ba)
    /\ s_i' = s_i + 1
    /\ s_qmem' = << Qubit(s_i + 1,
                          EncodeQubitProgram(At(s_bases, s_i + 1), At(secret_key, s_i + 1))) >>
    /\ s_pc' = "encode"
    /\ UNCHANGED << config, experimentVars, s_results, secret_key, s_bases, s_key, receiverVars,
                    q_chan, c_ab, sent, lost >>

\* mutant: every matching index is appended twice
BB84_SenderSift_Repeat ==
    /\ variant = "bb84" /\ s_pc = "await_bases" /\ Running
    /\ c_ba # << >>
    /\ s_cin' = Head(c_ba)
    /\ c_ba' = Tail(c_ba)
    /\ LET bob_bases == At(Head(c_ba).items, 0)
           m == MatchedIndices(bob_bases, s_bases, key_size)
           matched_indices == m \o m
       IN  IF MatchIndexError(bob_bases, key_size)
           THEN /\ s_pc' = "error"
                /\ UNCHANGED << s_key, c_ab, sent >>
           ELSE /\ SenderSend(IndexMsg(matched_indices))
                /\ s_key' = SelectKey(secret_key, matched_indices)
                /\ s_pc' = "done"
    /\ UNCHANGED << config, experimentVars, s_results, secret_key, s_bases, s_i, s_qmem, receiverVars,
                    q_chan, lost >>

\* a message arrives while the sender waits for the receiver's bases:
\* compute matched_indices, send them, build the key, signal SUCCESS
BB84_SenderSift ==
    /\ variant = "bb84" /\ s_pc = "await_bases" /\ Running
    /\ c_ba # << >>
    /\ s_cin' = Head(c_ba)
    /\ c_ba' = Tail(c_ba)
    /\ LET bob_bases == At(Head(c_ba).items, 0)
           matched_indices == MatchedIndices(bob_bases, s_bases, key_size)
       IN  IF MatchIndexError(bob_bases, key_size)
           THEN /\ s_pc' = "error"
                /\ UNCHANGED << s_key, c_ab, sent >>
           ELSE /\ SenderSend(IndexMsg(matched_indices))
                /\ s_key' = SelectKey(secret_key, matched_indices)
                /\ s_pc' = "done"
    /\ UNCHANGED << config, experimentVars, s_results, secret_key, s_bases, s_i, s_qmem, receiverVars,
                    q_chan, lost >>

\* KeyReceiverProtocol.run up to the first yield: draw the bases, wait for
\* qubit 0
BB84_ReceiverStart ==
    /\ variant = "bb84" /\ r_pc = "init" /\ s_pc # "init"
    /\ \E bs \in BitSeqs(key_size) : r_bases' = bs
    /\ results' = << >>
    /\ r_i' = 0
    /\ r_pc' = "await_qubit"
    /\ UNCHANGED << config, experimentVars, senderVars, kept_indices, qubits_received, r_key, r_cin, r_qmem,
                    q_chan, c_ab, c_ba, sent, lost >>

\* a qubit arrives on the quantum port (forwarded to memory position 0):
\* start measuring it in basis bases[i]
BB84_ReceiverMeasure ==
    /\ variant = "bb84" /\ r_pc = "await_qubit"
    /\ q_chan # << >>
    /\ r_qmem' = << Head(q_chan) >>
    /\ q_chan' = Tail(q_chan)
    /\ r_pc' = "measure"
    /\ UNCHANGED << config, experimentVars, senderVars, r_bases, r_i, results, kept_indices, qubits_received,
                    r_key, r_cin, c_ab, c_ba, sent, lost >>

\* mutant: the receiver sends no ACK
BB84_ReceiverRecord_NoAck ==
    /\ variant = "bb84" /\ r_pc = "measure"
    /\ \E res \in MeasureOutcomes(Head(r_qmem).st, At(r_bases, r_i), noisy) :
          results' = Append(results, res)
    /\ r_qmem' = << >>
    /\ IF r_i < key_size - 1
       THEN /\ UNCHANGED << c_ba, sent >>
            /\ r_i' = r_i + 1
            /\ r_pc' = "await_qubit"
       ELSE /\ ReceiverSend(BasesMsg(r_bases))
            /\ r_i' = r_i
            /\ r_pc' = "await_indices"
    /\ UNCHANGED << config, experimentVars, senderVars, r_bases, kept_indices, qubits_received, r_key, r_cin,
                    q_chan, c_ab, lost >>

\* the measurement has finished: record the result, reset the memory, send
\* the ACK (or, after the last qubit, the bases)
BB84_ReceiverRecord ==
    /\ variant = "bb84" /\ r_pc = "measure"
    /\ \E res \in MeasureOutcomes(Head(r_qmem).st, At(r_bases, r_i), noisy) :
          results' = Append(results, res)
    /\ r_qmem' = << >>
    /\ IF r_i < key_size - 1
       THEN /\ ReceiverSend(ACK)
            /\ r_i' = r_i + 1
            /\ r_pc' = "await_qubit"
       ELSE /\ ReceiverSend(BasesMsg(r_bases))
            /\ r_i' = r_i
            /\ r_pc' = "await_indices"
    /\ UNCHANGED << config, experimentVars, senderVars, r_bases, kept_indices, qubits_received, r_key, r_cin,
                    q_chan, c_ab, lost >>

\* mutant: the receiver does not wait for the matched indices
BB84_ReceiverKey_NoWait ==
    /\ variant = "bb84" /\ r_pc = "await_indices"
    /\ r_key' = results
    /\ r_pc' = "done"
    /\ UNCHANGED << config, experimentVars, senderVars, r_bases, r_i, results, kept_indices, qubits_received,
                    r_cin, r_qmem, q_chan, c_ab, c_ba, sent, lost >>

\* the matched indices arrive: build the key, signal SUCCESS
BB84_ReceiverKey ==
    /\ variant = "bb84" /\ r_pc = "await_indices"
    /\ c_ab # << >>
    /\ r_cin' = Head(c_ab)
    /\ c_ab' = Tail(c_ab)
    /\ LET matched_indices == Head(c_ab).items
       IN  IF SelectIndexError(results, matched_indices)
           THEN /\ r_pc' = "error"
                /\ r_key' = r_key
           ELSE /\ r_key' = SelectKey(results, matched_indices)
                /\ r_pc' = "done"
    /\ UNCHANGED << config, experimentVars, senderVars, r_bases, r_i, results, kept_indices, qubits_received,
                    r_qmem, q_chan, c_ba, sent, lost >>

----------------------------------------------------------------------------
(* Strict B92: qkd/protocols/b92/b92.py *)

\* mutant: the basis drawn at random is kept
B92_SetBasis_Keep(bases, i, bit) == bases

\* bases[i] = bit: the bit is the basis choice
B92_SetBasis(bases, i, bit) == [bases EXCEPT ![i + 1] = bit]

\* KeySenderProtocol.run up to the first yield: draw the secret key and the
\* bases, overwrite bases[0] by the bit, start encoding qubit 0 (bit 0)
B92_SenderStart ==
    /\ variant = "b92" /\ s_pc = "init"
    /\ \E sk \in BitSeqs(key_size), bs \in BitSeqs(key_size) :
          LET bases == B92_SetBasis(bs, 0, At(sk, 0))
          IN  /\ secret_key' = sk
              /\ s_bases' = bases
              /\ s_qmem' = << Qubit(0, EncodeQubitProgram(At(bases, 0), 0)) >>
    /\ s_i' = 0
    /\ s_pc' = "encode"
    /\ UNCHANGED << config, experimentVars, s_results, s_key, s_cin, receiverVars, q_chan, c_ab, c_ba, sent, lost >>

\* the encoding program has finished: pop the qubit, transmit it, then wait
\* for the ACK (or, after the last qubit, for the kept indices)
B92_SenderTransmit ==
    /\ variant = "b92" /\ s_pc = "encode" /\ Running
    /\ \E isLost \in LossOutcomes : QSend(Head(s_qmem), isLost)
    /\ s_qmem' = Tail(s_qmem)
    /\ s_pc' = IF s_i < key_size - 1 THEN "await_ack" ELSE "await_indices"
    /\ UNCHANGED << config, experimentVars, s_results, secret_key, s_bases, s_i, s_key, s_cin,
                    receiverVars, c_ab, c_ba, sent >>

\* a message arrives while the sender waits for the ACK: next round
B92_SenderAck ==
    /\ variant = "b92" /\ s_pc = "await_ack" /\ Running
    /\ c_ba # << >>
    /\ s_cin' = Head(c_ba)
    /\ c_ba' = Tail(c_ba)
    /\ s_i' = s_i + 1
    /\ LET bases == B92_SetBasis(s_bases, s_i + 1, At(secret_key, s_i + 1))
       IN  /\ s_bases' = bases
           /\ s_qmem' = << Qubit(s_i + 1, EncodeQubitProgram(At(bases, s_i + 1), 0)) >>
    /\ s_pc' = "encode"
    /\ UNCHANGED << config, experimentVars, s_results, secret_key, s_key, receiverVars, q_chan, c_ab, sent, lost >>

\* the kept indices arrive: build the key, signal SUCCESS
B92_SenderKey ==
    /\ variant = "b92" /\ s_pc = "await_indices" /\ Running
    /\ c_ba # << >>
    /\ s_cin' = Head(c_ba)
    /\ c_ba' = Tail(c_ba)
    /\ LET kept == Head(c_ba).items
       IN  IF SelectIndexError(secret_key, kept)
           THEN /\ s_pc' = "error"
                /\ s_key' = s_key
           ELSE /\ s_key' = SelectKey(secret_key, kept)
                /\ s_pc' = "done"
    /\ UNCHANGED << config, experimentVars, s_results, secret_key, s_bases, s_i, s_qmem, receiverVars,
                    q_chan, c_ab, sent, lost >>

\* KeyReceiverProtocol.run up to the first yield
B92_ReceiverStart ==
    /\ variant = "b92" /\ r_pc = "init" /\ s_pc # "init"
    /\ \E bs \in BitSeqs(key_size) : r_bases' = bs
    /\ results' = << >>
    /\ kept_indices' = << >>
    /\ r_i' = 0
    /\ r_pc' = "await_qubit"
    /\ UNCHANGED << config, experimentVars, senderVars, qubits_received, r_key, r_cin, r_qmem,
                    q_chan, c_ab, c_ba, sent, lost >>

\* a qubit arrives: start measuring it in basis bases[i]
B92_ReceiverMeasure ==
    /\ variant = "b92" /\ r_pc = "await_qubit"
    /\ q_chan # << >>
    /\ r_qmem' = << Head(q_chan) >>
    /\ q_chan' = Tail(q_chan)
    /\ r_pc' = "measure"
    /\ UNCHANGED << config, experimentVars, senderVars, r_bases, r_i, results, kept_indices,
                    qubits_received, r_key, r_cin, c_ab, c_ba, sent, lost >>

\* mutant: the basis label itself is recorded
B92_KeptBit_Basis(b) == b

\* the result kept for a conclusive measurement in basis b
B92_KeptBit(b) == IF b = 0 THEN 1 ELSE 0

\* mutant: the key is assigned in every round
B92_ReceiverRecord_KeyEachRound ==
    /\ variant = "b92" /\ r_pc = "measure"
    /\ \E res \in MeasureOutcomes(Head(r_qmem).st, At(r_bases, r_i), noisy) :
          LET kept == IF res = 1 THEN Append(kept_indices, r_i) ELSE kept_indices
              rs == IF res = 1 THEN Append(results, B92_KeptBit(At(r_bases, r_i)))
                    ELSE results
          IN  /\ kept_indices' = kept
              /\ results' = rs
              /\ IF r_i < key_size - 1
                 THEN /\ ReceiverSend(ACK)
                      /\ r_i' = r_i + 1
                      /\ r_key' = rs
                      /\ r_pc' = "await_qubit"
                 ELSE /\ r_key' = rs
                      /\ ReceiverSend(IndexMsg(kept))
                      /\ r_i' = r_i
                      /\ r_pc' = "done"
    /\ r_qmem' = << >>
    /\ UNCHANGED << config, experimentVars, senderVars, r_bases, qubits_received, r_cin,
                    q_chan, c_ab, lost >>

\* the measurement has finished: keep index i when the outcome is 1, reset
\* the memory, send the ACK; after the last qubit set the key, send the
\* kept indices and signal SUCCESS
B92_ReceiverRecord ==
    /\ variant = "b92" /\ r_pc = "measure"
    /\ \E res \in MeasureOutcomes(Head(r_qmem).st, At(r_bases, r_i), noisy) :
          LET kept == IF res = 1 THEN Append(kept_indices, r_i) ELSE kept_indices
              rs == IF res = 1 THEN Append(results, B92_KeptBit(At(r_bases, r_i)))
                    ELSE results
          IN  /\ kept_indices' = kept
              /\ results' = rs
              /\ IF r_i < key_size - 1
                 THEN /\ ReceiverSend(ACK)
                      /\ r_i' = r_i + 1
                      /\ r_key' = r_key
                      /\ r_pc' = "await_qubit"
                 ELSE /\ r_key' = rs
                      /\ ReceiverSend(IndexMsg(kept))
                      /\ r_i' = r_i
                      /\ r_pc' = "done"
    /\ r_qmem' = << >>
    /\ UNCHANGED << config, experimentVars, senderVars, r_bases, qubits_received, r_cin,
                    q_chan, c_ab, lost >>

----------------------------------------------------------------------------
(* Free-running BB84: qkd/protocols/bb84/bb84_realistic_v2.py *)

\* the state the qubit source emits (StateSampler([s0, s1], probs), probs (1, 0))
SourceState == "0"

\* EncodeQubitProgram.program of the free-running engine: no INIT, the
\* gates act on the qubit the source emitted
EncodeSourceQubit(src, base, bit) ==
    LET q1 == IF bit = 1 THEN INSTR_X(src) ELSE src
    IN  IF base = 1 THEN INSTR_H(q1) ELSE q1

\* for i in indices: if i < len(results): final_key.append(results[i])
RECURSIVE SelectKeyGuarded(_, _)
SelectKeyGuarded(seq, indices) ==
    IF indices = << >> THEN << >>
    ELSE (IF Head(indices) < Len(seq) THEN << At(seq, Head(indices)) >> ELSE << >>)
         \o SelectKeyGuarded(seq, Tail(indices))

\* mutant: nothing is removed from the list
DropLast_Keep(seq) == seq

\* matched_indices[:-1]
DropLast(seq) == IF seq = << >> THEN << >> ELSE SubSeq(seq, 1, Len(seq) - 1)

\* KeySenderProtocol.run up to the first yield: draw the secret key and the
\* bases, switch the source on, wait for its first qubit
BB84R_SenderStart ==
    /\ variant = "bb84_realistic" /\ s_pc = "init"
    /\ \E sk \in BitSeqs(key_size), bs \in BitSeqs(key_size) :
          /\ secret_key' = sk
          /\ s_bases' = bs
    /\ s_i' = 0
    /\ s_pc' = "await_source"
    /\ UNCHANGED << config, experimentVars, s_results, s_key, s_cin, s_qmem, receiverVars,
                    q_chan, c_ab, c_ba, sent, lost >>

\* the source emits a qubit: put it in memory position 0, encode it
BB84R_SenderEncode ==
    /\ variant = "bb84_realistic" /\ s_pc = "await_source" /\ Running
    /\ s_qmem' = << Qubit(s_i, EncodeSourceQubit(SourceState, At(s_bases, s_i),
                                                  At(secret_key, s_i))) >>
    /\ s_pc' = "encode"
    /\ UNCHANGED << config, experimentVars, s_results, secret_key, s_bases, s_i, s_key, s_cin, receiverVars,
                    q_chan, c_ab, c_ba, sent, lost >>

\* the encoding program has finished: pop the qubit and transmit it; after
\* the last one switch the source off and send DONE
BB84R_SenderTransmit ==
    /\ variant = "bb84_realistic" /\ s_pc = "encode" /\ Running
    /\ \E isLost \in LossOutcomes : QSend(Head(s_qmem), isLost)
    /\ s_qmem' = Tail(s_qmem)
    /\ IF s_i + 1 < key_size
       THEN /\ s_i' = s_i + 1
            /\ s_pc' = "await_source"
            /\ UNCHANGED << c_ab, sent >>
       ELSE /\ s_i' = s_i
            /\ SenderSend(DONE)
            /\ s_pc' = "await_bases"
    /\ UNCHANGED << config, experimentVars, s_results, secret_key, s_bases, s_key, s_cin, receiverVars, c_ba >>

\* the receiver's bases arrive: compute matched_indices, send all but the
\* last, build the key from all but the last, signal SUCCESS
BB84R_SenderSift ==
    /\ variant = "bb84_realistic" /\ s_pc = "await_bases" /\ Running
    /\ c_ba # << >>
    /\ s_cin' = Head(c_ba)
    /\ c_ba' = Tail(c_ba)
    /\ LET bob_bases == At(Head(c_ba).items, 0)
           matched_indices == MatchedIndices(bob_bases, s_bases, key_size)
       IN  IF MatchIndexError(bob_bases, key_size)
           THEN /\ s_pc' = "error"
                /\ UNCHANGED << s_key, c_ab, sent >>
           ELSE /\ SenderSend(IndexMsg(DropLast(matched_indices)))
                /\ s_key' = SelectKey(secret_key, DropLast(matched_indices))
                /\ s_pc' = "done"
    /\ UNCHANGED << config, experimentVars, s_results, secret_key, s_bases, s_i, s_qmem, receiverVars,
                    q_chan, lost >>

\* KeyReceiverProtocol.run up to the first yield: draw the bases, bind the
\* handlers, wait for DONE
BB84R_ReceiverStart ==
    /\ variant = "bb84_realistic" /\ r_pc = "init" /\ s_pc # "init"
    /\ \E bs \in BitSeqs(key_size) : r_bases' = bs
    /\ results' = << >>
    /\ qubits_received' = 0
    /\ r_pc' = "await_done"
    /\ UNCHANGED << config, experimentVars, senderVars, r_i, kept_indices, r_key, r_cin, r_qmem,
                    q_chan, c_ab, c_ba, sent, lost >>

\* handler measure_qubit: a qubit arrives and goes to the detector of basis
\* bases[qubits_received]; the detectors have no delay and no dead time, so
\* the previous qubit has left them
BB84R_measure_qubit ==
    /\ variant = "bb84_realistic" /\ Running /\ r_pc # "error"
    /\ q_chan # << >> /\ r_qmem = << >>
    /\ q_chan' = Tail(q_chan)
    /\ IF qubits_received >= key_size
       THEN \* bases[qubits_received] raises IndexError
            /\ r_pc' = "error"
            /\ UNCHANGED << r_qmem, qubits_received >>
       ELSE /\ r_qmem' = << [idx |-> Head(q_chan).idx, st |-> Head(q_chan).st,
                             det |-> At(r_bases, qubits_received)] >>
            /\ qubits_received' = qubits_received + 1
            /\ r_pc' = r_pc
    /\ UNCHANGED << config, experimentVars, senderVars, r_bases, r_i, results, kept_indices,
                    r_key, r_cin, c_ab, c_ba, sent, lost >>

\* handler record_measurement: a detector outputs its outcome
BB84R_record_measurement ==
    /\ variant = "bb84_realistic" /\ Running
    /\ r_qmem # << >>
    /\ \E res \in MeasureOutcomes(Head(r_qmem).st, Head(r_qmem).det, noisy) :
          results' = Append(results, res)
    /\ r_qmem' = Tail(r_qmem)
    /\ UNCHANGED << config, experimentVars, senderVars, r_pc, r_bases, r_i, kept_indices,
                    qubits_received, r_key, r_cin, q_chan, c_ab, c_ba, sent, lost >>

\* mutant: the reply holds only the bases of the qubits detected so far
BB84R_ReceiverReply_Detected ==
    /\ variant = "bb84_realistic" /\ r_pc = "await_done"
    /\ c_ab # << >>
    /\ r_cin' = Head(c_ab)
    /\ c_ab' = Tail(c_ab)
    /\ ReceiverSend(BasesMsg(SubSeq(r_bases, 1, Len(results))))
    /\ r_pc' = "await_indices"
    /\ UNCHANGED << config, experimentVars, senderVars, r_bases, r_i, results, kept_indices,
                    qubits_received, r_key, r_qmem, q_chan, lost >>

\* DONE arrives: send the bases back
BB84R_ReceiverReply ==
    /\ variant = "bb84_realistic" /\ r_pc = "await_done"
    /\ c_ab # << >>
    /\ r_cin' = Head(c_ab)
    /\ c_ab' = Tail(c_ab)
    /\ ReceiverSend(BasesMsg(r_bases))
    /\ r_pc' = "await_indices"
    /\ UNCHANGED << config, experimentVars, senderVars, r_bases, r_i, results, kept_indices,
                    qubits_received, r_key, r_qmem, q_chan, lost >>

\* the matched indices arrive: build the key from the results recorded so
\* far, signal SUCCESS
BB84R_ReceiverKey ==
    /\ variant = "bb84_realistic" /\ r_pc = "await_indices"
    /\ c_ab # << >>
    /\ r_cin' = Head(c_ab)
    /\ c_ab' = Tail(c_ab)
    /\ r_key' = SelectKeyGuarded(results, Head(c_ab).items)
    /\ r_pc' = "done"
    /\ UNCHANGED << config, experimentVars, senderVars, r_bases, r_i, results, kept_indices,
                    qubits_received, r_qmem, q_chan, c_ba, sent, lost >>

----------------------------------------------------------------------------
(* Entangled pairs.  A half of a pair that has not been measured has state *)
(* "b00"; measuring one half leaves the other half in the eigenstate of    *)
(* the observable and outcome measured.                                    *)

BellState == "b00"

\* the state left by a measurement of observable obs (0: Z, 1: X) with
\* outcome res
Eigenstate(obs, res) ==
    IF obs = 0 THEN (IF res = 0 THEN "0" ELSE "1")
    ELSE (IF res = 0 THEN "+" ELSE "-")

\* the qubits of seq after the partner of the half of round idx was measured
Collapse(seq, idx, obs, res) ==
    [k \in 1..Len(seq) |->
        IF seq[k].idx = idx /\ seq[k].st = BellState
        THEN [seq[k] EXCEPT !.st = Eigenstate(obs, res)]
        ELSE seq[k]]

\* a memory position of the quantum processor, the qubit it holds and the
\* instruction that is running on it
Slot(pos, idx, st) == [pos |-> pos, idx |-> idx, st |-> st, instr |-> "none"]

----------------------------------------------------------------------------
(* The quantum processors the network builder gives the nodes:            *)
(* qkd/networks/two_party.py                                               *)

\* _create_noiseless_processor builds QuantumProcessor without num_positions:
\* the processor has the library's default of one memory position
DefaultNumPositions == 1

\* memory_size of the network the free-running engines are run on
\* (TwoPartyNetwork('net', 0, 0, 10, ...)), num_positions of _create_processor
MemorySize == 10

\* the number of memory positions of the processor of a node
Capacity(v) ==
    IF v \in StrictVariants \cup {"e91"} THEN DefaultNumPositions ELSE MemorySize

\* the qubits the sender's processor memory holds: the free-running E91
\* sender keeps its halves in the detectors, never in the memory
SenderMemory == IF variant = "e91_realistic" THEN << >> ELSE s_qmem

\* the qubits the receiver's processor memory holds: only the strict
\* engines forward the arriving qubit to memory position 0
ReceiverMemory ==
    IF variant \in StrictVariants \cup {"e91"} THEN r_qmem ELSE << >>

\* the memory position a held qubit occupies: the BB84 and B92 engines use
\* position 0 only
PositionOf(q) == IF "pos" \in DOMAIN q THEN q.pos ELSE 0

----------------------------------------------------------------------------
(* Strict E91: qkd/protocols/e91/e91.py *)

\* bases = list(np.random.randint(3, size=key_size))
E91_SenderLabels == 0..2

\* bases = 1 + np.random.randint(3, size=key_size)
E91_ReceiverLabels == 1..3

\* the observable the sender measures for a basis label (0: INSTR_MEASURE,
\* 1: INSTR_MEASURE_X) and whether the read-out is inverted
E91_SenderObservable(b) == IF b = 1 THEN 1 ELSE 0
E91_SenderInverted(b) == b = 2

\* the same for the receiver
E91_ReceiverObservable(b) == IF b = 2 THEN 0 ELSE 1
E91_ReceiverInverted(b) == b = 3

\* the memory position InitStateProgram runs on: execute_program without
\* qubit_mapping
E91_InitPosition == 0

\* qubit_mapping=[1, 2] of GenerateEntanglement: the positions of the pair
E91_PairPositions == << 1, 2 >>

\* qmemory.pop(2): the position whose qubit is transmitted
E91_PopPosition == 2

\* the memory position the sender's measurement runs on:
\* execute_instruction without qubit_mapping
E91_MeasuredPosition == 0

\* the instruction the sender executes for a basis label
E91_SenderInstruction(b) ==
    IF E91_SenderObservable(b) = 0 THEN "INSTR_MEASURE" ELSE "INSTR_MEASURE_X"

\* execute_instruction(instruction) without qubit_mapping on the memory seq
ExecuteInstruction(seq, instruction) ==
    [k \in 1..Len(seq) |->
        IF seq[k].pos = E91_MeasuredPosition
        THEN [seq[k] EXCEPT !.instr = instruction]
        ELSE seq[k]]

\* the memory seq when the running measurement of observable obs ends with
\* outcome res
FinishInstruction(seq, obs, res) ==
    [k \in 1..Len(seq) |->
        IF seq[k].instr # "none"
        THEN [seq[k] EXCEPT !.st = Eigenstate(obs, res), !.instr = "none"]
        ELSE seq[k]]

\* KeySenderProtocol.run up to the first yield: draw the secret key and the
\* bases, run InitStateProgram
E91_SenderStart ==
    /\ variant = "e91" /\ s_pc = "init"
    /\ \E sk \in BitSeqs(key_size), bs \in [1..key_size -> E91_SenderLabels] :
          /\ secret_key' = sk
          /\ s_bases' = bs
    /\ s_i' = 0
    /\ s_pc' = "init_state"
    /\ UNCHANGED << config, experimentVars, s_key, s_cin, s_qmem, s_results, receiverVars,
                    q_chan, c_ab, c_ba, sent, lost >>

\* InitStateProgram has finished (position 0 holds |1>): run
\* GenerateEntanglement with qubit_mapping=[1, 2], which initialises and
\* entangles positions 1 and 2 while position 0 keeps its qubit
E91_SenderEntangle ==
    /\ variant = "e91" /\ s_pc = "init_state" /\ Running
    /\ s_qmem' = << Slot(E91_InitPosition, s_i, INSTR_X(INSTR_INIT)),
                    Slot(E91_PairPositions[1], s_i, BellState),
                    Slot(E91_PairPositions[2], s_i, BellState) >>
    /\ s_pc' = "entangle"
    /\ UNCHANGED << config, experimentVars, secret_key, s_bases, s_i, s_key, s_cin, s_results,
                    receiverVars, q_chan, c_ab, c_ba, sent, lost >>

\* GenerateEntanglement has finished (positions 1 and 2 hold the pair): pop
\* position 2 and transmit it, then start the measurement bases[i] selects.
\* The instruction acts on position 0; for bases[i] = 2 the expression
\* abs(1 - <instruction output>) is applied to the output container that is
\* indexed as res[0]['M'][0] afterwards, and raises TypeError
E91_SenderTransmit ==
    /\ variant = "e91" /\ s_pc = "entangle" /\ Running
    /\ LET popped == SelectSeq(s_qmem, LAMBDA q : q.pos = E91_PopPosition)
       IN  \E isLost \in LossOutcomes :
              QSend(Qubit(Head(popped).idx, Head(popped).st), isLost)
    /\ s_qmem' = ExecuteInstruction(
                     SelectSeq(s_qmem, LAMBDA q : q.pos # E91_PopPosition),
                     E91_SenderInstruction(At(s_bases, s_i)))
    /\ s_pc' = IF E91_SenderInverted(At(s_bases, s_i)) THEN "error" ELSE "measure"
    /\ UNCHANGED << config, experimentVars, secret_key, s_bases, s_i, s_key, s_cin, s_results,
                    receiverVars, c_ab, c_ba, sent >>

\* the measurement has finished and has left the qubit it ran on in the
\* eigenstate measured: results.append(...) names a list that run() never
\* defines, and raises NameError
E91_SenderRecord ==
    /\ variant = "e91" /\ s_pc = "measure" /\ Running
    /\ LET obs == E91_SenderObservable(At(s_bases, s_i))
           q == Head(SelectSeq(s_qmem, LAMBDA x : x.instr # "none"))
       IN  \E res \in MeasureOutcomes(q.st, obs, noisy) :
              s_qmem' = FinishInstruction(s_qmem, obs, res)
    /\ s_pc' = "error"
    /\ UNCHANGED << config, experimentVars, secret_key, s_bases, s_i, s_key, s_cin, s_results,
                    receiverVars, q_chan, c_ab, c_ba, sent, lost >>

\* KeyReceiverProtocol.run up to the first yield: draw the bases, wait for
\* qubit 0
E91_ReceiverStart ==
    /\ variant = "e91" /\ r_pc = "init" /\ s_pc # "init"
    /\ \E bs \in [1..key_size -> E91_ReceiverLabels] : r_bases' = bs
    /\ results' = << >>
    /\ r_i' = 0
    /\ r_pc' = "await_qubit"
    /\ UNCHANGED << config, experimentVars, senderVars, kept_indices, qubits_received, r_key, r_cin, r_qmem,
                    q_chan, c_ab, c_ba, sent, lost >>

\* a qubit arrives (forwarded to memory position 0): start the measurement
\* bases[i] selects; for bases[i] = 3 the expression abs(1 - ...) raises
E91_ReceiverMeasure ==
    /\ variant = "e91" /\ r_pc = "await_qubit"
    /\ q_chan # << >>
    /\ r_qmem' = << Head(q_chan) >>
    /\ q_chan' = Tail(q_chan)
    /\ r_pc' = IF E91_ReceiverInverted(At(r_bases, r_i)) THEN "error" ELSE "measure"
    /\ UNCHANGED << config, experimentVars, senderVars, r_bases, r_i, results, kept_indices, qubits_received,
                    r_key, r_cin, c_ab, c_ba, sent, lost >>

\* the measurement has finished: record the result, reset the memory, send
\* the ACK (or, after the last qubit, the bases).  The half the sender
\* retains is left in the eigenstate measured
E91_ReceiverRecord ==
    /\ variant = "e91" /\ r_pc = "measure"
    /\ LET obs == E91_ReceiverObservable(At(r_bases, r_i))
       IN  \E res \in MeasureOutcomes(Head(r_qmem).st, obs, noisy) :
              /\ results' = Append(results, res)
              /\ s_qmem' = Collapse(s_qmem, Head(r_qmem).idx, obs, res)
    /\ r_qmem' = << >>
    /\ IF r_i < key_size - 1
       THEN /\ ReceiverSend(ACK)
            /\ r_i' = r_i + 1
            /\ r_pc' = "await_qubit"
       ELSE /\ ReceiverSend(BasesMsg(r_bases))
            /\ r_i' = r_i
            /\ r_pc' = "await_indices"
    /\ UNCHANGED << config, experimentVars, s_pc, secret_key, s_bases, s_i, s_key, s_cin, s_results,
                    r_bases, kept_indices, qubits_received, r_key, r_cin,
                    q_chan, c_ab, lost >>

----------------------------------------------------------------------------
(* Free-running E91: qkd/protocols/e91/e91_realistic.py *)

\* bit = 0: the index measure_half reads bases with; it is never advanced
E91R_bit == 0

\* a half of a pair at the sender: in a detector (at = "det", measured in
\* basis det) or on the source's second port (at = "qout1")
Half(at, idx, st, det) == [at |-> at, idx |-> idx, st |-> st, det |-> det]

\* the halves of seq that are at the given place
HalvesAt(seq, at) == SelectSeq(seq, LAMBDA h : h.at = at)

\* KeySenderProtocol.run up to the first yield: draw the bases, bind the
\* handlers, switch the source on, wait for its first pair
E91R_SenderStart ==
    /\ variant = "e91_realistic" /\ s_pc = "init"
    /\ \E bs \in BitSeqs(key_size) : s_bases' = bs
    /\ s_results' = << >>
    /\ s_i' = 0
    /\ s_pc' = "await_source"
    /\ UNCHANGED << config, experimentVars, secret_key, s_key, s_cin, s_qmem, receiverVars,
                    q_chan, c_ab, c_ba, sent, lost >>

\* the source emits a pair.  Handler measure_half: the half on qout0 goes to
\* the detector of basis bases[bit]; the half on qout1 wakes the transmit
\* loop.  The detectors have no delay, so the previous half has left them
E91R_measure_half ==
    /\ variant = "e91_realistic" /\ s_pc = "await_source" /\ Running
    /\ s_qmem = << >>
    /\ s_qmem' = << Half("det", s_i, BellState, At(s_bases, E91R_bit)),
                    Half("qout1", s_i, BellState, 0) >>
    /\ s_pc' = "transmit"
    /\ UNCHANGED << config, experimentVars, secret_key, s_bases, s_i, s_key, s_cin, s_results,
                    receiverVars, q_chan, c_ab, c_ba, sent, lost >>

\* handler record_measurement of the sender: a detector outputs its outcome
E91R_Sender_record_measurement ==
    /\ variant = "e91_realistic" /\ Running
    /\ HalvesAt(s_qmem, "det") # << >>
    /\ LET h == Head(HalvesAt(s_qmem, "det"))
       IN  \E res \in MeasureOutcomes(h.st, h.det, noisy) :
              /\ s_results' = Append(s_results, res)
              /\ s_qmem' = Collapse(HalvesAt(s_qmem, "qout1"), h.idx, h.det, res)
              /\ q_chan' = Collapse(q_chan, h.idx, h.det, res)
              /\ r_qmem' = Collapse(r_qmem, h.idx, h.det, res)
    /\ UNCHANGED << config, experimentVars, s_pc, secret_key, s_bases, s_i, s_key, s_cin,
                    r_pc, r_bases, r_i, results, kept_indices, qubits_received, r_key, r_cin,
                    c_ab, c_ba, sent, lost >>

\* the transmit loop resumes: send the half on qout1; after the last pair
\* switch the source off and send DONE
E91R_SenderTransmit ==
    /\ variant = "e91_realistic" /\ s_pc = "transmit" /\ Running
    /\ LET h == Head(HalvesAt(s_qmem, "qout1"))
       IN  \E isLost \in LossOutcomes : QSend(Qubit(h.idx, h.st), isLost)
    /\ s_qmem' = HalvesAt(s_qmem, "det")
    /\ IF s_i + 1 < key_size
       THEN /\ s_i' = s_i + 1
            /\ s_pc' = "await_source"
            /\ UNCHANGED << c_ab, sent >>
       ELSE /\ s_i' = s_i
            /\ SenderSend(DONE)
            /\ s_pc' = "await_bases"
    /\ UNCHANGED << config, experimentVars, secret_key, s_bases, s_key, s_cin, s_results,
                    receiverVars, c_ba >>

\* the receiver's bases arrive (the sender's detectors reported long before:
\* they have no delay): compute matched_indices, send them, build the key
\* from the sender's results, signal SUCCESS
E91R_SenderSift ==
    /\ variant = "e91_realistic" /\ s_pc = "await_bases" /\ Running
    /\ s_qmem = << >>
    /\ c_ba # << >>
    /\ s_cin' = Head(c_ba)
    /\ c_ba' = Tail(c_ba)
    /\ LET bob_bases == At(Head(c_ba).items, 0)
           matched_indices == MatchedIndices(bob_bases, s_bases, key_size)
       IN  IF MatchIndexError(bob_bases, key_size)
           THEN /\ s_pc' = "error"
                /\ UNCHANGED << s_key, c_ab, sent >>
           ELSE /\ SenderSend(IndexMsg(matched_indices))
                /\ IF SelectIndexError(s_results, matched_indices)
                   THEN s_pc' = "error" /\ s_key' = s_key
                   ELSE s_pc' = "done" /\ s_key' = SelectKey(s_results, matched_indices)
    /\ UNCHANGED << config, experimentVars, secret_key, s_bases, s_i, s_qmem, s_results, receiverVars,
                    q_chan, lost >>

\* KeyReceiverProtocol.run up to the first yield: draw the bases, bind the
\* handlers, wait for DONE
E91R_ReceiverStart ==
    /\ variant = "e91_realistic" /\ r_pc = "init" /\ s_pc # "init"
    /\ \E bs \in BitSeqs(key_size) : r_bases' = bs
    /\ results' = << >>
    /\ qubits_received' = 0
    /\ r_pc' = "await_done"
    /\ UNCHANGED << config, experimentVars, senderVars, r_i, kept_indices, r_key, r_cin, r_qmem,
                    q_chan, c_ab, c_ba, sent, lost >>

\* handler measure_qubit: a qubit arrives and goes to the detector of basis
\* bases[qubits_received]
E91R_measure_qubit ==
    /\ variant = "e91_realistic" /\ Running /\ r_pc # "error"
    /\ q_chan # << >> /\ r_qmem = << >>
    /\ q_chan' = Tail(q_chan)
    /\ IF qubits_received >= key_size
       THEN \* bases[qubits_received] raises IndexError
            /\ r_pc' = "error"
            /\ UNCHANGED << r_qmem, qubits_received >>
       ELSE /\ r_qmem' = << [idx |-> Head(q_chan).idx, st |-> Head(q_chan).st,
                             det |-> At(r_bases, qubits_received)] >>
            /\ qubits_received' = qubits_received + 1
            /\ r_pc' = r_pc
    /\ UNCHANGED << config, experimentVars, senderVars, r_bases, r_i, results, kept_indices,
                    r_key, r_cin, c_ab, c_ba, sent, lost >>

\* handler record_measurement of the receiver: a detector outputs its outcome
E91R_Receiver_record_measurement ==
    /\ variant = "e91_realistic" /\ Running
    /\ r_qmem # << >>
    /\ LET q == Head(r_qmem)
       IN  \E res \in MeasureOutcomes(q.st, q.det, noisy) :
              /\ results' = Append(results, res)
              /\ s_qmem' = Collapse(s_qmem, q.idx, q.det, res)
    /\ r_qmem' = Tail(r_qmem)
    /\ UNCHANGED << config, experimentVars, s_pc, secret_key, s_bases, s_i, s_key, s_cin, s_results,
                    r_pc, r_bases, r_i, kept_indices, qubits_received, r_key, r_cin,
                    q_chan, c_ab, c_ba, sent, lost >>

\* mutant: the reply carries the measurement outcomes
E91R_ReceiverReply_Outcomes ==
    /\ variant = "e91_realistic" /\ r_pc = "await_done"
    /\ c_ab # << >>
    /\ r_cin' = Head(c_ab)
    /\ c_ab' = Tail(c_ab)
    /\ ReceiverSend(BasesMsg(results))
    /\ r_pc' = "await_indices"
    /\ UNCHANGED << config, experimentVars, senderVars, r_bases, r_i, results, kept_indices,
                    qubits_received, r_key, r_qmem, q_chan, lost >>

\* DONE arrives: send back the bases of the qubits detected so far
E91R_ReceiverReply ==
    /\ variant = "e91_realistic" /\ r_pc = "await_done"
    /\ c_ab # << >>
    /\ r_cin' = Head(c_ab)
    /\ c_ab' = Tail(c_ab)
    /\ ReceiverSend(BasesMsg(SubSeq(r_bases, 1, Len(results))))
    /\ r_pc' = "await_indices"
    /\ UNCHANGED << config, experimentVars, senderVars, r_bases, r_i, results, kept_indices,
                    qubits_received, r_key, r_qmem, q_chan, lost >>

\* the matched indices arrive: build the key from the results recorded so
\* far, signal SUCCESS
E91R_ReceiverKey ==
    /\ variant = "e91_realistic" /\ r_pc = "await_indices"
    /\ c_ab # << >>
    /\ r_cin' = Head(c_ab)
    /\ c_ab' = Tail(c_ab)
    /\ r_key' = SelectKeyGuarded(results, Head(c_ab).items)
    /\ r_pc' = "done"
    /\ UNCHANGED << config, experimentVars, senderVars, r_bases, r_i, results, kept_indices,
                    qubits_received, r_qmem, q_chan, c_ba, sent, lost >>

----------------------------------------------------------------------------
(* Free-running B92: qkd/protocols/b92/b92_realistic.py *)

\* record_measurement (detector z) appends 0, record_measurement1 (detector
\* x) appends 1
B92R_KeptBit(det) == IF det = 0 THEN 0 ELSE 1

\* the body of record_measurement / record_measurement1 for outcome res,
\* with the arrival counter at count
B92R_Record(det, res, count) ==
    /\ kept_indices' = IF res = 1 THEN Append(kept_indices, count) ELSE kept_indices
    /\ results' = IF res = 1 THEN Append(results, B92R_KeptBit(det)) ELSE results

\* KeySenderProtocol.run up to the first yield: draw the secret key and the
\* bases, switch the source on, overwrite bases[0] by the bit, wait for the
\* source's first qubit
B92R_SenderStart ==
    /\ variant = "b92_realistic" /\ s_pc = "init"
    /\ \E sk \in BitSeqs(key_size), bs \in BitSeqs(key_size) :
          /\ secret_key' = sk
          /\ s_bases' = B92_SetBasis(bs, 0, At(sk, 0))
    /\ s_i' = 0
    /\ s_pc' = "await_source"
    /\ UNCHANGED << config, experimentVars, s_key, s_cin, s_qmem, s_results, receiverVars,
                    q_chan, c_ab, c_ba, sent, lost >>

\* the source emits a qubit: put it in memory position 0, encode it with
\* EncodeQubitProgram(bases[i], 0)
B92R_SenderEncode ==
    /\ variant = "b92_realistic" /\ s_pc = "await_source" /\ Running
    /\ s_qmem' = << Qubit(s_i, EncodeSourceQubit(SourceState, At(s_bases, s_i), 0)) >>
    /\ s_pc' = "encode"
    /\ UNCHANGED << config, experimentVars, secret_key, s_bases, s_i, s_key, s_cin, s_results,
                    receiverVars, q_chan, c_ab, c_ba, sent, lost >>

\* the encoding program has finished: pop the qubit and transmit it, set
\* the next basis; after the last qubit switch the source off and send DONE
B92R_SenderTransmit ==
    /\ variant = "b92_realistic" /\ s_pc = "encode" /\ Running
    /\ \E isLost \in LossOutcomes : QSend(Head(s_qmem), isLost)
    /\ s_qmem' = Tail(s_qmem)
    /\ IF s_i + 1 < key_size
       THEN /\ s_i' = s_i + 1
            /\ s_bases' = B92_SetBasis(s_bases, s_i + 1, At(secret_key, s_i + 1))
            /\ s_pc' = "await_source"
            /\ UNCHANGED << c_ab, sent >>
       ELSE /\ s_i' = s_i
            /\ s_bases' = s_bases
            /\ SenderSend(DONE)
            /\ s_pc' = "await_indices"
    /\ UNCHANGED << config, experimentVars, secret_key, s_key, s_cin, s_results, receiverVars, c_ba >>

\* the kept indices arrive: send all but the last back, build the key from
\* all but the last, signal SUCCESS
B92R_SenderKey ==
    /\ variant = "b92_realistic" /\ s_pc = "await_indices" /\ Running
    /\ c_ba # << >>
    /\ s_cin' = Head(c_ba)
    /\ c_ba' = Tail(c_ba)
    /\ LET kept == Head(c_ba).items
       IN  /\ SenderSend(IndexMsg(DropLast(kept)))
           /\ IF SelectIndexError(secret_key, DropLast(kept))
              THEN s_pc' = "error" /\ s_key' = s_key
              ELSE s_pc' = "done" /\ s_key' = SelectKey(secret_key, DropLast(kept))
    /\ UNCHANGED << config, experimentVars, secret_key, s_bases, s_i, s_qmem, s_results, receiverVars,
                    q_chan, lost >>

\* KeyReceiverProtocol.run up to the first yield: draw the bases, bind the
\* handlers, wait for DONE
B92R_ReceiverStart ==
    /\ variant = "b92_realistic" /\ r_pc = "init" /\ s_pc # "init"
    /\ \E bs \in BitSeqs(key_size) : r_bases' = bs
    /\ results' = << >>
    /\ kept_indices' = << >>
    /\ qubits_received' = 0
    /\ r_pc' = "await_done"
    /\ UNCHANGED << config, experimentVars, senderVars, r_i, r_key, r_cin, r_qmem,
                    q_chan, c_ab, c_ba, sent, lost >>

\* handler measure_qubit: a qubit arrives and goes to the detector of basis
\* bases[qubits_received]; then the arrival counter is incremented.  A
\* detector that reports within tx_input runs its result handler here,
\* before the increment; otherwise the handler runs as an event of its own
B92R_measure_qubit ==
    /\ variant = "b92_realistic" /\ Running /\ r_pc # "error"
    /\ q_chan # << >> /\ r_qmem = << >>
    /\ q_chan' = Tail(q_chan)
    /\ IF qubits_received >= key_size
       THEN \* bases[qubits_received] raises IndexError
            /\ r_pc' = "error"
            /\ UNCHANGED << r_qmem, qubits_received, kept_indices, results >>
       ELSE LET det == At(r_bases, qubits_received)
            IN  /\ qubits_received' = qubits_received + 1
                /\ r_pc' = r_pc
                /\ IF detector_sync
                   THEN /\ r_qmem' = r_qmem
                        /\ \E res \in MeasureOutcomes(Head(q_chan).st, det, noisy) :
                              B92R_Record(det, res, qubits_received)
                   ELSE /\ r_qmem' = << [idx |-> Head(q_chan).idx, st |-> Head(q_chan).st,
                                         det |-> det] >>
                        /\ UNCHANGED << kept_indices, results >>
    /\ UNCHANGED << config, experimentVars, senderVars, r_bases, r_i, r_key, r_cin, c_ab, c_ba, sent, lost >>

\* handler record_measurement: detector z outputs its outcome
B92R_record_measurement ==
    /\ variant = "b92_realistic" /\ Running
    /\ r_qmem # << >> /\ Head(r_qmem).det = 0
    /\ \E res \in MeasureOutcomes(Head(r_qmem).st, 0, noisy) :
          B92R_Record(0, res, qubits_received)
    /\ r_qmem' = Tail(r_qmem)
    /\ UNCHANGED << config, experimentVars, senderVars, r_pc, r_bases, r_i, qubits_received, r_key, r_cin,
                    q_chan, c_ab, c_ba, sent, lost >>

\* handler record_measurement1: detector x outputs its outcome
B92R_record_measurement1 ==
    /\ variant = "b92_realistic" /\ Running
    /\ r_qmem # << >> /\ Head(r_qmem).det = 1
    /\ \E res \in MeasureOutcomes(Head(r_qmem).st, 1, noisy) :
          B92R_Record(1, res, qubits_received)
    /\ r_qmem' = Tail(r_qmem)
    /\ UNCHANGED << config, experimentVars, senderVars, r_pc, r_bases, r_i, qubits_received, r_key, r_cin,
                    q_chan, c_ab, c_ba, sent, lost >>

\* DONE arrives: build the key from the results at the kept indices, send
\* the kept indices, signal SUCCESS
B92R_ReceiverKey ==
    /\ variant = "b92_realistic" /\ r_pc = "await_done"
    /\ c_ab # << >>
    /\ r_cin' = Head(c_ab)
    /\ c_ab' = Tail(c_ab)
    /\ r_key' = SelectKeyGuarded(results, kept_indices)
    /\ ReceiverSend(IndexMsg(kept_indices))
    /\ r_pc' = "done"
    /\ UNCHANGED << config, experimentVars, senderVars, r_bases, r_i, results, kept_indices,
                    qubits_received, r_qmem, q_chan, lost >>

----------------------------------------------------------------------------

Next ==
    \/ BB84_SenderStart
    \/ BB84_SenderTransmit
    \/ BB84_SenderAck
    \/ BB84_SenderSift
    \/ BB84_ReceiverStart
    \/ BB84_ReceiverMeasure
    \/ BB84_ReceiverRecord
    \/ BB84_ReceiverKey
    \/ B92_SenderStart
    \/ B92_SenderTransmit
    \/ B92_SenderAck
    \/ B92_SenderKey
    \/ B92_ReceiverStart
    \/ B92_ReceiverMeasure
    \/ B92_ReceiverRecord
    \/ BB84R_SenderStart
    \/ BB84R_SenderEncode
    \/ BB84R_SenderTransmit
    \/ BB84R_SenderSift
    \/ BB84R_ReceiverStart
    \/ BB84R_measure_qubit
    \/ BB84R_record_measurement
    \/ BB84R_ReceiverReply
    \/ BB84R_ReceiverKey
    \/ E91_SenderStart
    \/ E91_SenderEntangle
    \/ E91_SenderTransmit
    \/ E91_SenderRecord
    \/ E91_ReceiverStart
    \/ E91_ReceiverMeasure
    \/ E91_ReceiverRecord
    \/ E91R_SenderStart
    \/ E91R_measure_half
    \/ E91R_Sender_record_measurement
    \/ E91R_SenderTransmit
    \/ E91R_SenderSift
    \/ E91R_ReceiverStart
    \/ E91R_measure_qubit
    \/ E91R_Receiver_record_measurement
    \/ E91R_ReceiverReply
    \/ E91R_ReceiverKey
    \/ B92R_SenderStart
    \/ B92R_SenderEncode
    \/ B92R_SenderTransmit
    \/ B92R_SenderKey
    \/ B92R_ReceiverStart
    \/ B92R_measure_qubit
    \/ B92R_record_measurement
    \/ B92R_record_measurement1
    \/ B92R_ReceiverKey

Spec == Init /\ [][Next]_vars

\* the engine pairs whose termination is examined
LiveVariants == StrictVariants \cup FreeVariants

LiveInit == Init /\ variant \in LiveVariants

\* the steps of the engine pairs of LiveVariants
LiveNext ==
    \/ BB84_SenderStart
    \/ BB84_SenderTransmit
    \/ BB84_SenderAck
    \/ BB84_SenderSift
    \/ BB84_ReceiverStart
    \/ BB84_ReceiverMeasure
    \/ BB84_ReceiverRecord
    \/ BB84_ReceiverKey
    \/ B92_SenderStart
    \/ B92_SenderTransmit
    \/ B92_SenderAck
    \/ B92_SenderKey
    \/ B92_ReceiverStart
    \/ B92_ReceiverMeasure
    \/ B92_ReceiverRecord
    \/ BB84R_SenderStart
    \/ BB84R_SenderEncode
    \/ BB84R_SenderTransmit
    \/ BB84R_SenderSift
    \/ BB84R_ReceiverStart
    \/ BB84R_measure_qubit
    \/ BB84R_record_measurement
    \/ BB84R_ReceiverReply
    \/ BB84R_ReceiverKey

\* the event kernel runs every scheduled event: the simulation does not stop
\* while an engine step or a delivery is pending
LiveSpec == LiveInit /\ [][LiveNext]_vars /\ WF_vars(LiveNext)

----------------------------------------------------------------------------
(* The concrete scenario of qkd/bb84/bb84.py: strict BB84 with key_size=15  *)
(* on the network of generate_network(), which has neither loss nor noise. *)

ScenarioInit ==
    /\ variant = "bb84"
    /\ key_size = ScenarioKeySize
    /\ lossy = FALSE /\ noisy = FALSE
    /\ detector_sync = FALSE
    /\ Constructed
    /\ NoExperiment

ScenarioNext ==
    \/ BB84_SenderStart
    \/ BB84_SenderTransmit
    \/ BB84_SenderAck
    \/ BB84_SenderSift
    \/ BB84_ReceiverStart
    \/ BB84_ReceiverMeasure
    \/ BB84_ReceiverRecord
    \/ BB84_ReceiverKey

ScenarioSpec == ScenarioInit /\ [][ScenarioNext]_vars

----------------------------------------------------------------------------
(* The network builder (qkd/networks/two_party.py) and the experiment      *)
(* drivers: run_experiment of run_simulations/run_sim.py and of            *)
(* qkd/protocols/bb84/bb84_realistic_v2.py.  A driver builds a network for *)
(* every run, runs one session of the free-running BB84 engines on it and  *)
(* computes the statistics from the keys of all runs.                      *)

\* the number of runs and the key_size the drivers are checked with
MaxRuns == 2
MaxExpKeySize == 3

\* argument values with their python type; v lists the numbers of the value
Num(x) == [ty |-> "num", v |-> << x >>]
Tuple(a, b) == [ty |-> "seq", v |-> << a, b >>]
Str == [ty |-> "str", v |-> << >>]
Dict == [ty |-> "dict", v |-> << >>]
NoneValue == [ty |-> "none", v |-> << >>]

Drivers == {"builder", "run_sim", "bb84_realistic_v2", "main"}

\* the engine modules whose __main__ block builds a network and runs the
\* module's engines on it (bb84_realistic_v2.py calls its run_experiment;
\* e91.py imports a builder that two_party.py does not define)
MainVariants == {"bb84", "b92", "b92_realistic", "e91_realistic"}

\* the generate method the __main__ block of the module of engine v calls
MainMethod(v) ==
    IF v \in StrictVariants THEN "generate_noiseless_network"
    ELSE "generate_noisy_network"
Methods == {"generate_noiseless_network", "generate_noiseless_ent_network",
            "generate_noisy_network"}

\* delay=10 of both classical channels
ClassicalDelay == 10

\* the defaults of TwoPartyNetwork.__init__(name, length, dephase_rate,
\* memory_size, t_time, q_source_probs, loss)
Defaults == << Str, Num(0), Num(0), Num(100), NoneValue, Tuple(1, 0), Tuple(0, 0) >>

\* TwoPartyNetwork.__init__ called with the positional arguments p: the
\* k-th argument is bound to the k-th parameter, whatever it is
TwoPartyNetwork(p) ==
    LET arg(k) == IF k <= Len(p) THEN p[k] ELSE Defaults[k]
    IN  [name |-> arg(1),
         length |-> arg(2),
         dephase_rate |-> arg(3),
         memory_size |-> arg(4),
         t_time |-> IF arg(5).ty = "none" THEN Dict ELSE arg(5),
         q_source_probs |-> arg(6),
         loss |-> arg(7)]

\* the positional arguments with which driver d, called with arguments a
\* and key_size k, constructs the network
TwoPartyNetworkCall(d, a, k) ==
    LET t_time == IF a.t_time.ty = "none" THEN Dict ELSE a.t_time
    IN  CASE d = "run_sim" ->
               << Str, a.fibre_length, a.dephase_rate, Num(k), t_time,
                  a.q_source_probs, a.loss >>
          [] d = "bb84_realistic_v2" ->
               << a.fibre_length, a.dephase_rate, Num(k), t_time,
                  a.q_source_probs, a.loss >>
          [] d = "builder" ->
               << Str, a.fibre_length, a.dephase_rate, Num(MemorySize), a.t_time,
                  a.q_source_probs, a.loss >>
          [] d = "main" ->
               IF variant \in StrictVariants
               THEN << >>
               ELSE << Str, Num(0), Num(0), Num(MemorySize), Dict,
                       Tuple(1, 0), Tuple(0, 0) >>

\* generate_noisy_network raises TypeError: t_times['T1'] on a value that is
\* no dict, [model] * memory_size and num_positions with a value that is no
\* number, list(probs) and loss[0] on a number
NoisyTypeError(o) ==
    \/ o.t_time.ty # "dict"
    \/ o.memory_size.ty # "num"
    \/ o.q_source_probs.ty = "num"
    \/ o.loss.ty = "num"

\* a negative dephase rate or a negative loss parameter
NegativeConfig(o) ==
    \/ o.dephase_rate.ty = "num" /\ o.dephase_rate.v[1] < 0
    \/ o.loss.ty = "seq" /\ \E k \in 1..Len(o.loss.v) : o.loss.v[k] < 0

\* the subcomponents the generate method adds to the processor of a node:
\* generate_noiseless_ent_network gives alice ent_source, generate_noisy_network
\* gives alice qubit_source and bob the two detectors
Subcomponents(method, node) ==
    CASE method = "generate_noiseless_ent_network" ->
           IF node = "alice" THEN {"ent_source"} ELSE {}
      [] method = "generate_noisy_network" ->
           IF node = "alice" THEN {"qubit_source"}
           ELSE {"qubit_detector_z", "qubit_detector_x"}
      [] OTHER -> {}

\* _generate_network forwards the input of each node's qubit port to qin0
\* of its memory; generate_noisy_network forwards nothing
ForwardsInput(method) == method # "generate_noisy_network"

\* the network a generate method returns for the object o
Network(method, o) ==
    IF method = "generate_noisy_network"
    THEN [method |-> method,
          positions |-> o.memory_size.v[1],
          loss |-> o.loss.v,
          dephase_rate |-> o.dephase_rate.v[1],
          c_delay_ab |-> ClassicalDelay, c_delay_ba |-> ClassicalDelay,
          alice |-> Subcomponents(method, "alice"),
          bob |-> Subcomponents(method, "bob"),
          forward |-> ForwardsInput(method)]
    ELSE [method |-> method,
          positions |-> DefaultNumPositions,
          loss |-> << 0, 0 >>,
          dephase_rate |-> 0,
          c_delay_ab |-> ClassicalDelay, c_delay_ba |-> ClassicalDelay,
          alice |-> Subcomponents(method, "alice"),
          bob |-> Subcomponents(method, "bob"),
          forward |-> ForwardsInput(method)]

\* the subcomponents of the processor that the engine v reaches through
\* node.qmemory.subcomponents[...] on the node of a party
Uses(v, party) ==
    CASE v \in {"bb84_realistic", "b92_realistic"} ->
           IF party = "alice" THEN {"qubit_source"}
           ELSE {"qubit_detector_z", "qubit_detector_x"}
      [] v = "e91_realistic" ->
           IF party = "alice"
           THEN {"ent_source", "qubit_detector_z", "qubit_detector_x"}
           ELSE {"qubit_detector_z", "qubit_detector_x"}
      [] OTHER -> {}

\* the receiver of engine v measures the arriving qubit in memory position
\* 0: it relies on the node's qubit port being forwarded to the memory
NeedsForward(v) == v \in StrictVariants \cup {"e91"}

\* starting the engines of v on the network n raises KeyError on a
\* subcomponent the node does not have; without the forwarding the
\* receiver's measurement finds no qubit in the memory
MissingComponent(v, n) ==
    \/ ~(Uses(v, "alice") \subseteq n.alice)
    \/ ~(Uses(v, "bob") \subseteq n.bob)
    \/ NeedsForward(v) /\ ~n.forward

\* the bit sequences a sifted key of a session with key_size k can be: the
\* free-running sender drops the last matched index
Keys(k) == UNION {[1..l -> Bit] : l \in 0..(k - 1)}

\* the keys (p1.key, p2.key) with which a free-running BB84 session on the
\* network n can end: the receiver selects its results at the sender's
\* indices that it has a result for, so its key is never longer, and is
\* shorter only when a qubit was lost
SessionOutcomes(n, k) ==
    {o \in Keys(k) \X Keys(k) :
        /\ Len(o[2]) <= Len(o[1])
        /\ (\A j \in 1..Len(n.loss) : n.loss[j] <= 0) => Len(o[2]) = Len(o[1])}

\* keys_match(key1, key2)
keys_match(key1, key2) ==
    IF Len(key1) # Len(key2) THEN FALSE
    ELSE \A j \in 1..Len(key1) : key1[j] = key2[j]

\* qber(key1, key2) raises IndexError when key2 is shorter than key1 and
\* ZeroDivisionError when key1 is empty
QberError(key1, key2) == Len(key2) < Len(key1) \/ Len(key1) = 0

\* qber(key1, key2) where it raises nothing: 1 - matched / len(key1), as the
\* pair of the number of unmatched positions and len(key1)
qber(key1, key2) ==
    << Cardinality({j \in 1..Len(key1) : key1[j] # key2[j]}), Len(key1) >>

\* the number of runs i <= n whose keys match (match = TRUE) or do not
RECURSIVE CountRuns(_, _, _, _)
CountRuns(akeys, bkeys, n, match) ==
    IF n = 0 THEN 0
    ELSE CountRuns(akeys, bkeys, n - 1, match)
         + (IF keys_match(akeys[n], bkeys[n]) = match THEN 1 ELSE 0)

\* for _ in range(runs): ns.sim_reset(); n = TwoPartyNetwork(...)
\* .generate_noisy_network().  The models the builder constructs may or may
\* not reject a negative rate (accept)
RunExperiment_Build ==
    /\ exp_pc = "loop" /\ run < args.runs
    /\ LET o == TwoPartyNetwork(TwoPartyNetworkCall(driver, args, key_size))
           method == CASE driver = "builder" -> args.method
                       [] driver = "main" -> MainMethod(variant)
                       [] OTHER -> "generate_noisy_network"
       IN  \E accept \in BOOLEAN :
              IF /\ method = "generate_noisy_network"
                 /\ (NoisyTypeError(o) \/ (NegativeConfig(o) /\ ~accept))
              THEN /\ exp_pc' = "error"
                   /\ net' = NoNet
                   /\ run' = run
              ELSE /\ net' = Network(method, o)
                   /\ exp_pc' = IF driver = "builder" THEN "returned" ELSE "session"
                   /\ run' = IF driver = "builder" THEN run + 1 ELSE run
    /\ UNCHANGED << config, senderVars, receiverVars, q_chan, c_ab, c_ba, sent, lost,
                    driver, args, alice_keys, bob_keys, stats >>

\* p1.start(); p2.start(); ns.sim_run(): the session runs to its end and the
\* keys of both engines are appended to alice_keys and bob_keys
RunExperiment_Session ==
    /\ exp_pc = "session"
    /\ IF MissingComponent(variant, net)
       THEN /\ exp_pc' = "error"
            /\ UNCHANGED << run, alice_keys, bob_keys >>
       ELSE /\ run' = run + 1
            /\ exp_pc' = IF driver = "main" THEN "returned" ELSE "loop"
            /\ IF driver \in {"run_sim", "bb84_realistic_v2"}
               THEN \E o \in SessionOutcomes(net, key_size) :
                       /\ alice_keys' = Append(alice_keys, o[1])
                       /\ bob_keys' = Append(bob_keys, o[2])
               ELSE UNCHANGED << alice_keys, bob_keys >>
    /\ UNCHANGED << config, senderVars, receiverVars, q_chan, c_ab, c_ba, sent, lost,
                    driver, args, net, stats >>

\* the statistics after the last run.  run_sim.py adds qber(bob_key,
\* alice_key) / len(bob_keys) to AVG_QBER for every run (kept here as the
\* list of the fractions) and, called with correction=False, leaves
\* CORRECTED_MATCHED at 0; bb84_realistic_v2.py counts the keys only
RunExperiment_Stats ==
    /\ exp_pc = "loop" /\ run = args.runs /\ driver \in {"run_sim", "bb84_realistic_v2"}
    /\ IF /\ driver = "run_sim"
          /\ \E i \in 1..Len(bob_keys) : QberError(bob_keys[i], alice_keys[i])
       THEN /\ exp_pc' = "error"
            /\ stats' = stats
       ELSE /\ exp_pc' = "returned"
            /\ stats' = [MISMATCHED_KEYS |->
                            CountRuns(alice_keys, bob_keys, Len(bob_keys), FALSE),
                         MATCHED_KEYS |->
                            CountRuns(alice_keys, bob_keys, Len(bob_keys), TRUE),
                         CORRECTED_MATCHED |-> 0,
                         AVG_QBER |->
                            IF driver = "run_sim"
                            THEN [i \in 1..Len(bob_keys) |->
                                     qber(bob_keys[i], alice_keys[i])]
                            ELSE << >>]
    /\ UNCHANGED << config, senderVars, receiverVars, q_chan, c_ab, c_ba, sent, lost,
                    driver, args, run, net, alice_keys, bob_keys >>

\* the arguments a driver can be called with: rates and probabilities by
\* their sign
ExperimentArgs ==
    [fibre_length : {Num(0), Num(100)},
     dephase_rate : {Num(-1), Num(0), Num(1)},
     t_time : {NoneValue, Dict},
     q_source_probs : {Tuple(1, 0)},
     loss : {Tuple(0, 0), Tuple(1, 0), Tuple(-1, 0), Tuple(0, -1)},
     runs : 1..MaxRuns,
     method : Methods]

\* the arguments of the __main__ block of the module of engine v
MainArgs(v) ==
    [fibre_length |-> Num(0), dephase_rate |-> Num(0),
     t_time |-> IF v \in StrictVariants THEN NoneValue ELSE Dict,
     q_source_probs |-> Tuple(1, 0), loss |-> Tuple(0, 0),
     runs |-> 1, method |-> MainMethod(v)]

ExperimentInit ==
    /\ driver \in Drivers
    /\ variant \in (IF driver = "main" THEN MainVariants ELSE {"bb84_realistic"})
    /\ driver = "main" => args = MainArgs(variant)
    /\ key_size \in 1..MaxExpKeySize
    /\ lossy = FALSE /\ noisy = FALSE /\ detector_sync = FALSE
    /\ Constructed
    /\ args \in ExperimentArgs
    /\ driver = "builder" => args.runs = 1
    /\ driver \in {"run_sim", "bb84_realistic_v2"} => args.method = "generate_noisy_network"
    /\ exp_pc = "loop"
    /\ run = 0
    /\ net = NoNet
    /\ alice_keys = << >> /\ bob_keys = << >>
    /\ stats = NoStats

ExperimentNext ==
    \/ RunExperiment_Build
    \/ RunExperiment_Session
    \/ RunExperiment_Stats

ExperimentSpec == ExperimentInit /\ [][ExperimentNext]_vars

----------------------------------------------------------------------------
(* Properties *)

SenderDone == s_pc = "done"
ReceiverDone == r_pc = "done"
BothDone == SenderDone /\ ReceiverDone
Ideal == ~lossy /\ ~noisy

\* the indices at which the two parties drew the same basis
AgreeSet == {i \in 0..(key_size - 1) : At(s_bases, i) = At(r_bases, i)}

\* the elements of a set of numbers in ascending order
Ascending(S) ==
    CHOOSE f \in [1..Cardinality(S) -> S] :
        \A a, b \in 1..Cardinality(S) : a < b => f[a] < f[b]

\* the elements of seq at the (0-based) positions listed in indices
BitsAt(seq, indices) == [k \in 1..Len(indices) |-> seq[indices[k] + 1]]

\* the ACKs the receiver has sent so far
AcksSent == Cardinality({k \in 1..Len(sent) : sent[k].msg.kind = "ACK"})

\* C1: strict BB84 on a noiseless, lossless channel: once both engines have
\* signalled completion, the sender's and the receiver's sifted keys are the
\* same sequence of bits.
C1_StrictBB84KeysAgree ==
    (variant = "bb84" /\ Ideal /\ BothDone) => s_key = r_key

C1_Witness ==
    /\ variant = "bb84" /\ Ideal /\ BothDone
    /\ key_size >= 2
    /\ Len(s_key) >= 1 /\ Len(s_key) < key_size
    /\ s_key = r_key

\* C2: strict BB84: on each side the sifted key has length at most key_size,
\* equal to the number of indices where the two bases agree, and is that
\* side's own recorded bits at those indices in ascending index order.
C2_StrictBB84KeyShape ==
    variant = "bb84" =>
        /\ SenderDone =>
              /\ Len(s_key) <= key_size
              /\ Len(s_key) = Cardinality(AgreeSet)
              /\ s_key = BitsAt(secret_key, Ascending(AgreeSet))
        /\ ReceiverDone =>
              /\ Len(r_key) <= key_size
              /\ Len(r_key) = Cardinality(AgreeSet)
              /\ r_key = BitsAt(results, Ascending(AgreeSet))

C2_Witness ==
    /\ variant = "bb84" /\ BothDone
    /\ Cardinality(AgreeSet) >= 2
    /\ s_key # r_key

\* C3: strict engines (BB84, B92): at most one qubit is in flight or
\* unmeasured at the receiver, and whenever the sender is about to transmit
\* qubit i >= 1 the receiver has measured qubits 0..i-1, nothing is in flight
\* and all i ACKs have arrived at the sender.
C3_StrictOneInFlight ==
    variant \in StrictVariants =>
        /\ Len(q_chan) + Len(r_qmem) <= 1
        /\ (s_pc = "encode" /\ s_i >= 1) =>
              /\ q_chan = << >> /\ r_qmem = << >>
              /\ r_i = s_i /\ r_pc = "await_qubit"
              /\ AcksSent = s_i /\ c_ba = << >>

C3_Witness ==
    /\ variant \in StrictVariants
    /\ s_pc \in {"await_ack", "await_bases", "await_indices"} /\ s_i >= 1
    /\ Len(q_chan) = 1

\* C4: strict engines: once any transmitted qubit has been lost (the last one
\* included) neither engine ever signals completion and no key is set.
C4_StrictLossDeadlock ==
    (variant \in StrictVariants /\ lost # {}) =>
        /\ s_pc # "done" /\ r_pc # "done"
        /\ s_key = None /\ r_key = None

C4_Witness ==
    /\ variant \in StrictVariants
    /\ key_size >= 2
    /\ lost = {key_size - 1}
    /\ s_pc = "await_bases" \/ s_pc = "await_indices"
    /\ r_pc = "await_qubit"

\* C5: strict engines (BB84, B92) on a lossless channel: under fair
\* scheduling both engines eventually signal completion with their key set.
C5_StrictTerminates ==
    (variant \in StrictVariants /\ ~lossy)
        ~> (BothDone /\ s_key # None /\ r_key # None)

C5_Witness ==
    /\ variant \in StrictVariants /\ ~lossy
    /\ key_size >= 2
    /\ BothDone /\ s_key # None /\ r_key # None

\* the largest element of a non-empty set of numbers
Largest(S) == CHOOSE m \in S : \A x \in S : x <= m

WithoutLargest(S) == IF S = {} THEN {} ELSE S \ {Largest(S)}

NoError == s_pc # "error" /\ r_pc # "error"

\* a BB84 session in which the two parties agree on no basis
ZeroMatch ==
    /\ variant \in {"bb84", "bb84_realistic"}
    /\ Running
    /\ AgreeSet = {}

C7_FreeBB84LossTolerant ==
    (variant = "bb84_realistic") ~> (BothDone /\ NoError)

C7_Witness ==
    /\ variant = "bb84_realistic" /\ BothDone
    /\ key_size >= 2
    /\ lost = 0..(key_size - 1)

\* C8: free-running receivers: the basis sequence sent back on the
\* end-of-stream marker has as many entries as results recorded so far.
C8_ReplySizedByDetections ==
    [][(variant \in FreeVariants /\ r_pc = "await_done" /\ r_pc' = "await_indices")
         => Len(At(sent'[Len(sent')].msg.items, 0)) = Len(results)]_vars

\* the index lists the sender has sent
SenderIndexLists ==
    {sent[k].msg.items : k \in {j \in 1..Len(sent) :
        sent[j].from = "alice" /\ sent[j].msg.kind = "indices"}}

\* C9: the index list the BB84 sender sends back: in the free-running engine
\* the ascending list of agreeing indices without its largest element, the
\* sender's key being its bits at exactly those indices; in the strict
\* engine the whole ascending list of agreeing indices.
C9_IndexSetSent ==
    \A indices \in SenderIndexLists :
        /\ variant = "bb84_realistic" =>
              /\ indices = Ascending(WithoutLargest(AgreeSet))
              /\ s_key = BitsAt(secret_key, indices)
        /\ variant = "bb84" =>
              /\ indices = Ascending(AgreeSet)
              /\ s_key = BitsAt(secret_key, indices)

C9_Witness ==
    /\ variant = "bb84_realistic" /\ SenderDone
    /\ Cardinality(AgreeSet) = 2
    /\ Cardinality(SenderIndexLists) = 1
    /\ Len(s_key) = 1

\* C10: free-running BB84 on a noiseless, lossless channel: once both
\* engines have completed, the two sifted keys are the same sequence.
C10_FreeBB84KeysAgree ==
    (variant = "bb84_realistic" /\ Ideal /\ BothDone) => s_key = r_key

\* the indices at which the bases the sender holds and the bases the
\* receiver holds carry the same label
E91Matched == Ascending(AgreeSet)

\* C11: E91 (strict and free-running) on a noiseless, lossless channel: once
\* both engines have completed, the sender's and the receiver's sifted keys
\* are the same sequence.
C11_E91KeysAgree ==
    (variant \in E91Variants /\ Ideal /\ BothDone) => s_key = r_key

\* C12: E91 key extraction: each side's key is its own recorded measurement
\* outcomes at the indices where the two basis choices match, and the sender
\* records the outcome of the measurement of its retained half in every
\* round, so that its key element for a matched index is that outcome.
C12_E91KeyFromOutcomes ==
    /\ [](variant \in E91Variants =>
            /\ (SenderDone => s_key = BitsAt(s_results, E91Matched))
            /\ (ReceiverDone => r_key = BitsAt(results, E91Matched)))
    /\ [][(variant \in E91Variants /\ s_pc = "measure" /\ s_pc' # "measure")
            => s_results' # s_results /\ Len(s_results') = s_i + 1]_vars

\* C13: strict E91 basis choice: in every round each party's basis label is
\* one the other party can draw as well (both draw from one set of three
\* labels), and a label denotes the same observable and the same read-out
\* inversion on both sides.
C13_E91SameBasisSet ==
    (variant = "e91" /\ Running) =>
        \A i \in 0..(key_size - 1) :
            LET a == At(s_bases, i)
                b == At(r_bases, i)
            IN  /\ a \in E91_ReceiverLabels
                /\ b \in E91_SenderLabels
                /\ E91_SenderObservable(a) = E91_ReceiverObservable(a)
                /\ E91_SenderInverted(a) = E91_ReceiverInverted(a)

\* C14: strict B92 conclusive-result rule: the receiver keeps index i only
\* on outcome 1 and drops it only on outcome 0; the bit recorded is 1 after
\* a measurement in basis 0 and 0 after one in basis 1; on a noiseless
\* channel no index is kept at which the receiver's basis equals the
\* sender's encoding basis (which is the sender's bit), and the bit recorded
\* at a kept index is the sender's bit.
C14_B92ConclusiveRule ==
    /\ [](variant = "b92" =>
            /\ Len(results) = Len(kept_indices)
            /\ \A k \in 1..Len(kept_indices) :
                  LET i == kept_indices[k]
                  IN  /\ results[k] = (IF At(r_bases, i) = 0 THEN 1 ELSE 0)
                      /\ ~noisy => /\ At(s_bases, i) = At(secret_key, i)
                                   /\ At(r_bases, i) # At(s_bases, i)
                                   /\ results[k] = At(secret_key, i))
    /\ [][(variant = "b92" /\ r_pc = "measure" /\ r_pc' # "measure") =>
            LET outcomes == MeasureOutcomes(Head(r_qmem).st, At(r_bases, r_i), noisy)
            IN  IF kept_indices' # kept_indices
                THEN kept_indices' = Append(kept_indices, r_i) /\ 1 \in outcomes
                ELSE 0 \in outcomes]_vars

C14_Witness ==
    /\ variant = "b92" /\ ~noisy /\ ReceiverDone
    /\ key_size >= 2
    /\ Len(kept_indices) >= 1 /\ Len(kept_indices) < key_size

\* the index lists the receiver has sent
ReceiverIndexLists ==
    {sent[k].msg.items : k \in {j \in 1..Len(sent) :
        sent[j].from = "bob" /\ sent[j].msg.kind = "indices"}}

\* C15: strict B92: the receiver's key is its sequence of kept results, the
\* sender's key is its original bits at the indices the receiver reported,
\* both have as many elements as there are conclusive indices (at most
\* key_size), and on a noiseless lossless channel the two keys are equal.
C15_StrictB92Keys ==
    variant = "b92" =>
        /\ ReceiverDone =>
              /\ r_key = results
              /\ Len(r_key) = Len(kept_indices) /\ Len(r_key) <= key_size
              /\ ReceiverIndexLists = {kept_indices}
        /\ SenderDone =>
              /\ s_key = BitsAt(secret_key, kept_indices)
              /\ Len(s_key) = Len(kept_indices)
        /\ (Ideal /\ BothDone) => s_key = r_key

C15_Witness ==
    /\ variant = "b92" /\ Ideal /\ BothDone
    /\ key_size >= 2
    /\ Len(s_key) >= 1 /\ Len(s_key) < key_size
    /\ s_key = r_key

\* C16: free-running B92: once both engines have completed, the receiver's
\* key is its sequence of kept results, the sender's key is its original
\* bits at the kept indices the receiver reported, the two keys have the
\* same length, and on a noiseless lossless channel they are equal.
C16_FreeB92Keys ==
    (variant = "b92_realistic" /\ BothDone) =>
        /\ r_key = results
        /\ \A k \in 1..Len(kept_indices) : kept_indices[k] < key_size
        /\ ReceiverIndexLists = {kept_indices}
        /\ s_key = BitsAt(secret_key, kept_indices)
        /\ Len(s_key) = Len(r_key)
        /\ Ideal => s_key = r_key

\* the messages of a kind sent so far
SentOfKind(kind) == {k \in 1..Len(sent) : sent[k].msg.kind = kind}

\* C17: B92 sifting exchange (strict and free-running): every classical
\* message is an ACK, the end-of-stream marker or an index list; an index
\* list is sent by the receiver only, at most once per session and exactly
\* once in a completed session; no basis sequence is sent.
C17_B92OneSiftingMessage ==
    variant \in {"b92", "b92_realistic"} =>
        /\ \A k \in 1..Len(sent) :
              /\ sent[k].msg.kind \in {"ACK", "DONE", "indices"}
              /\ sent[k].msg.kind = "indices" => sent[k].from = "bob"
        /\ Cardinality(SentOfKind("indices")) <= 1
        /\ BothDone => Cardinality(SentOfKind("indices")) = 1

\* C18: free-running BB84 under any loss pattern: once both engines have
\* completed, the two sifted keys have the same length.
C18_FreeBB84EqualLength ==
    (variant = "bb84_realistic" /\ BothDone) => Len(s_key) = Len(r_key)

\* C19: no free-running engine (BB84, B92, E91) reaches an error state,
\* whichever qubits are lost.
C19_LossRaisesNothing ==
    variant \in {"bb84_realistic", "b92_realistic", "e91_realistic"} => NoError

\* the party has sent a message in this step
Sends(party) == sent' # sent /\ sent'[Len(sent')].from = party

C21_MemoryWithinCapacity ==
    /\ Len(SenderMemory) <= Capacity(variant)
    /\ Len(ReceiverMemory) <= Capacity(variant)
    /\ \A k \in 1..Len(SenderMemory) :
          PositionOf(SenderMemory[k]) < Capacity(variant)
    /\ Len(SenderMemory) <= (IF variant = "e91" THEN 2 ELSE 1)
    /\ Len(ReceiverMemory) <= 1

\* the index lists both parties have sent
IndexLists == SenderIndexLists \cup ReceiverIndexLists

\* the bits a sender selects its key from: its measurement outcomes in the
\* free-running E91 engine, the bits it encoded in every other engine
SenderBits == IF variant = "e91_realistic" THEN s_results ELSE secret_key

\* seq is an initial part of full
IsPrefix(seq, full) ==
    Len(seq) <= Len(full) /\ seq = SubSeq(full, 1, Len(seq))

\* C22: every classical message of every engine is an ACK, an end-of-stream
\* marker, the receiver's basis sequence or an index list; no message carries
\* a secret bit or a measurement outcome; each party's key is computed only
\* from its own recorded bits and an exchanged index list.
C22_TranscriptsNotMerged ==
    /\ [](\A k \in 1..Len(sent) :
            LET m == sent[k].msg
            IN  \/ m.kind = "ACK" /\ m.items = << "ACK" >>
                \/ m.kind = "DONE" /\ m.items = << "DONE" >>
                \/ /\ m.kind = "bases" /\ sent[k].from = "bob"
                   /\ Len(m.items) = 1 /\ IsPrefix(At(m.items, 0), r_bases)
                \/ /\ m.kind = "indices"
                   /\ \A j \in 1..Len(m.items) : m.items[j] \in 0..key_size)
    /\ [][/\ s_key' # s_key =>
               \E l \in IndexLists' : s_key' = SelectKey(SenderBits', l)
          /\ r_key' # r_key =>
               \/ variant = "b92" /\ r_key' = results'
               \/ \E l \in IndexLists' : r_key' = SelectKeyGuarded(results', l)]_vars

\* a free-running BB84 session in which the receiver has answered with its
\* bases and both keys are selected, and a strict B92 session that is done
C22_Witness ==
    /\ BothDone /\ key_size >= 2
    /\ Len(s_key) >= 1 /\ Len(r_key) >= 1
    /\ variant = "bb84_realistic"
    /\ SentOfKind("bases") # {} /\ SentOfKind("DONE") # {} /\ IndexLists # {}

\* C24 as stated: BB84 with key_size=15 on the noiseless, lossless network:
\* in every run that completes the two sifted keys have equal length, that
\* length is non-zero, and the keys are identical sequences of 0/1.
C24_ScenarioKeysNonEmpty ==
    (BothDone /\ key_size = ScenarioKeySize) =>
        /\ Len(s_key) = Len(r_key)
        /\ Len(s_key) > 0
        /\ s_key = r_key
        /\ \A k \in 1..Len(s_key) : s_key[k] \in Bit

\* C24 amended: in every run that completes the two sifted keys have equal
\* length, are identical sequences of 0/1, and their length is the number
\* of indices at which the bases agree, which is zero when none agrees.
C24_ScenarioKeys ==
    (BothDone /\ key_size = ScenarioKeySize) =>
        /\ Len(s_key) = Len(r_key)
        /\ Len(s_key) = Cardinality(AgreeSet)
        /\ s_key = r_key
        /\ \A k \in 1..Len(s_key) : s_key[k] \in Bit

\* a completed run of the scenario with a key of some but not all positions
C24_Witness ==
    /\ BothDone /\ variant = "bb84" /\ key_size = ScenarioKeySize
    /\ Len(s_key) >= 1 /\ Len(s_key) < key_size
    /\ 0 \in AgreeSet

\* the network object the driver's constructor call yields
BuiltFrom == TwoPartyNetwork(TwoPartyNetworkCall(driver, args, key_size))

\* C25: run_experiment for free-running BB84 with loss=(0,0) and
\* dephase_rate=0: for any number of runs N >= 1 and any key_size >= 1 it
\* returns, with MATCHED_KEYS = N and MISMATCHED_KEYS = 0.
C25_ExperimentAllMatched ==
    (/\ driver = "bb84_realistic_v2"
     /\ args.loss.v = << 0, 0 >> /\ args.dephase_rate.v = << 0 >>) =>
        /\ exp_pc # "error"
        /\ exp_pc = "returned" =>
              (stats.MATCHED_KEYS = args.runs /\ stats.MISMATCHED_KEYS = 0)

\* C26: building a network from a configuration with a negative loss
\* parameter or a negative dephase rate ends in an error at build time and
\* yields no network; every network that is built has a classical delay
\* greater than 0 in both directions.
C26_BuilderValidates ==
    net.method # "none" =>
        /\ ~NegativeConfig(BuiltFrom)
        /\ net.c_delay_ab > 0 /\ net.c_delay_ba > 0

\* C27: whenever the sender's and the receiver's sifted keys of one session
\* differ in length, the experiment ends in an error state; it never
\* returns normally with the pair counted as a mismatched-key statistic.
C27_LengthMismatchIsError ==
    exp_pc = "returned" =>
        \A i \in 1..Len(bob_keys) : Len(alice_keys[i]) = Len(bob_keys[i])

\* C28: the list of matched indices the BB84 sender computes from the bases
\* it received is exactly the strictly ascending list of all i in
\* 0..key_size-1 at which the received basis equals its own: none omitted,
\* none added, none repeated.  The strict engine sends this list, the
\* free-running engine sends it without its last element.
C28_MatchedIndexList ==
    [][(variant \in {"bb84", "bb84_realistic"} /\ s_pc = "await_bases" /\ s_pc' = "done") =>
          LET receiver_bases == At(Head(c_ba).items, 0)
              computed == MatchedIndices(receiver_bases, s_bases, key_size)
              agreeing == {i \in 0..(key_size - 1) :
                              At(receiver_bases, i) = At(s_bases, i)}
              sentList == sent'[Len(sent')].msg.items
          IN  /\ computed = Ascending(agreeing)
              /\ \A a, b \in 1..Len(computed) : a < b => computed[a] < computed[b]
              /\ sentList = IF variant = "bb84" THEN computed ELSE DropLast(computed)]_vars

\* a strict BB84 sender that has sifted bases agreeing at index 1 only
C28_Witness ==
    /\ variant = "bb84" /\ SenderDone /\ key_size = 2
    /\ AgreeSet = {1}
    /\ SenderIndexLists = {<< 1 >>}

\* C29: free-running receivers (BB84, E91): at the moment the receiver
\* processes the end-of-stream marker and sends its basis reply, every qubit
\* that was transmitted and not lost has been measured and its result
\* recorded, whatever the delays of the two channels are: the marker never
\* overtakes a delivered qubit.
C29_MarkerAfterQubits ==
    [][(/\ variant \in {"bb84_realistic", "e91_realistic"}
        /\ r_pc = "await_done" /\ r_pc' = "await_indices") =>
          /\ q_chan = << >>
          /\ r_qmem = << >>
          /\ Len(results) = key_size - Cardinality(lost)]_vars

\* C30: free-running BB84, for every loss pattern: the receiver basis the
\* sender compares with its own basis at index i is the basis the receiver
\* used to measure the sender's i-th qubit, and the receiver's result at
\* index i is the measurement of the sender's i-th qubit.  The receiver
\* takes bases[qubits_received] for an arriving qubit and appends its result
\* to results, so both hold exactly when the qubit that arrives as number k
\* is the sender's k-th qubit.
C30_IndexAlignment ==
    [][variant = "bb84_realistic" =>
          /\ qubits_received' = qubits_received + 1 =>
                Head(q_chan).idx = qubits_received
          /\ Len(results') = Len(results) + 1 =>
                Head(r_qmem).idx = Len(results)]_vars

\* the messages the party has sent so far, in order
SentBy(party) ==
    SelectSeq(sent, LAMBDA e : e.from = party)

\* C31: strict BB84 message accounting, for every key_size >= 1: the
\* receiver sends one ACK after each qubit but the last, key_size-1 in
\* all, and then exactly one basis message and nothing more; the sender
\* reads an ACK in each of its key_size-1 waits between two qubits, so the
\* message it reads as the receiver's bases is the basis message, and the
\* message the receiver reads as the index set is the sender's
\* matched-index list.
C31_MessageAccounting ==
    variant = "bb84" =>
        LET bob == SentBy("bob")
            alice == SentBy("alice")
        IN  /\ Len(bob) <= key_size
            /\ \A k \in 1..Len(bob) :
                  bob[k].msg = IF k <= key_size - 1 THEN ACK ELSE BasesMsg(r_bases)
            /\ r_pc \in {"await_qubit", "measure"} => Len(bob) = r_i
            /\ r_pc \in {"await_indices", "done"} => Len(bob) = key_size
            /\ (s_pc = "await_ack" /\ c_ba # << >>) => Head(c_ba) = ACK
            /\ s_pc \in {"encode", "await_ack"} => Len(bob) - Len(c_ba) = s_i
            /\ s_pc = "encode" /\ s_i >= 1 => s_cin = ACK
            /\ s_pc = "await_bases" =>
                  /\ s_i = key_size - 1
                  /\ c_ba # << >> => c_ba = << BasesMsg(r_bases) >>
            /\ s_pc = "done" => s_cin = BasesMsg(r_bases)
            /\ Len(alice) <= 1
            /\ (r_pc = "await_indices" /\ c_ab # << >>) =>
                  /\ c_ab = << alice[1].msg >>
                  /\ Head(c_ab).kind = "indices"
            /\ r_pc = "done" =>
                  /\ r_cin = alice[1].msg
                  /\ r_cin.kind = "indices"

C31_Witness ==
    /\ variant = "bb84" /\ BothDone
    /\ key_size >= 2
    /\ AcksSent = key_size - 1
    /\ s_cin.kind = "bases" /\ r_cin.kind = "indices"

\* C32: free-running E91 sender: the retained half of the pair of round i
\* is measured in the sender's recorded basis bases[i], the value that is
\* later compared with the receiver's basis at index i.
C32_RetainedHalfBasis ==
    variant = "e91_realistic" =>
        \A k \in 1..Len(s_qmem) :
            s_qmem[k].at = "det" => s_qmem[k].det = At(s_bases, s_qmem[k].idx)

\* the memory position of the half of the pair that the sender retains
E91_RetainedPosition ==
    CHOOSE p \in {E91_PairPositions[1], E91_PairPositions[2]} : p # E91_PopPosition

\* C33: strict E91 sender: in every round the qubit transmitted is a half
\* of the pair created in that round, and the sender's measurement runs on
\* the memory position that holds the other half of that pair, on no other
\* position.
C33_PairHalves ==
    /\ [](variant = "e91" =>
            \A k \in 1..Len(s_qmem) :
                s_qmem[k].instr # "none" =>
                    /\ s_qmem[k].pos = E91_RetainedPosition
                    /\ s_qmem[k].idx = s_i)
    /\ [][(variant = "e91" /\ s_pc = "entangle" /\ s_pc' # "entangle") =>
            /\ \E k \in 1..Len(s_qmem) :
                  /\ s_qmem[k].pos \in {E91_PairPositions[1], E91_PairPositions[2]}
                  /\ s_qmem[k].pos # E91_RetainedPosition
                  /\ s_qmem[k].idx = s_i
                  /\ \A j \in 1..Len(s_qmem') : s_qmem'[j].pos # s_qmem[k].pos
            /\ Len(s_qmem') = Len(s_qmem) - 1]_vars

\* C34: free-running B92 receiver: every index in its kept-index list, and
\* in the list it reports, lies in 0..key_size-1 and is the 0-based arrival
\* position of the qubit whose detection was conclusive (the number of
\* qubits that arrived before it), whether the detector's result callback
\* runs before or after the arrival counter is incremented.
C34_KeptIndexIsArrival ==
    /\ [](variant = "b92_realistic" =>
            /\ \A k \in 1..Len(kept_indices) : kept_indices[k] \in 0..(key_size - 1)
            /\ \A L \in ReceiverIndexLists :
                  \A k \in 1..Len(L) : L[k] \in 0..(key_size - 1))
    /\ [][(variant = "b92_realistic" /\ kept_indices' # kept_indices) =>
            /\ Len(kept_indices') = Len(kept_indices) + 1
            /\ kept_indices'[Len(kept_indices')] = qubits_received' - 1]_vars

\* C35: no orphan classical messages, in every engine pair: once both
\* parties have emitted their completion signal no classical message is
\* left unconsumed, and no message is ever sent to a party that has already
\* completed.
C35_NoOrphanMessages ==
    /\ [](BothDone => (c_ab = << >> /\ c_ba = << >>))
    /\ [][/\ Sends("alice") => r_pc # "done"
          /\ Sends("bob") => s_pc # "done"]_vars

\* C36: completion ordering: in BB84 and E91 the receiver never emits its
\* completion signal before the sender has computed the matched-index list
\* and sent it; in B92 the sender never emits its completion signal before
\* the receiver has sent the kept-index list.
C36_CompletionOrdering ==
    /\ [](/\ (variant \in {"bb84", "bb84_realistic"} \cup E91Variants /\ ReceiverDone)
               => \E L \in SenderIndexLists : r_cin = IndexMsg(L)
          /\ (variant \in {"b92", "b92_realistic"} /\ SenderDone)
               => \E L \in ReceiverIndexLists : s_cin = IndexMsg(L))
    /\ [][/\ (variant \in {"bb84", "bb84_realistic"} \cup E91Variants
               /\ r_pc # "done" /\ r_pc' = "done")
               => (SenderIndexLists # {} /\ ~Sends("alice"))
          /\ (variant \in {"b92", "b92_realistic"} /\ s_pc # "done" /\ s_pc' = "done")
               => (ReceiverIndexLists # {} /\ ~Sends("bob"))]_vars

C36_Witness ==
    /\ variant = "bb84" /\ ReceiverDone
    /\ r_cin.kind = "indices" /\ Len(r_cin.items) >= 1
    /\ SenderIndexLists = {r_cin.items}

\* C37: the experiment statistics tolerate every key pair the engines can
\* produce: once the last run has ended, run_experiment of run_sim.py
\* computes MATCHED_KEYS, MISMATCHED_KEYS and AVG_QBER and returns; it
\* enters no error state when a sifted key is empty or when the two keys
\* of a run differ in length.
C37_StatisticsTolerateKeys ==
    (driver = "run_sim" /\ run = args.runs) =>
        /\ exp_pc # "error"
        /\ exp_pc = "returned" =>
              /\ stats.MATCHED_KEYS + stats.MISMATCHED_KEYS = args.runs
              /\ Len(stats.AVG_QBER) = args.runs

\* C38: every component a protocol engine uses is present on the node of
\* the network it is run on: whenever a driver has built a network for an
\* engine pair, the sources and detectors the sender accesses are
\* subcomponents of alice's processor, those the receiver accesses are
\* subcomponents of bob's, and the port forwarding the engine relies on
\* exists.
C38_ComponentsPresent ==
    (driver # "builder" /\ net.method # "none") =>
        /\ Uses(variant, "alice") \subseteq net.alice
        /\ Uses(variant, "bob") \subseteq net.bob
        /\ NeedsForward(variant) => net.forward

\* the t_time a driver passes on: its default when called without one
PassedTTime == IF args.t_time.ty = "none" THEN Dict ELSE args.t_time

\* C39: run_experiment of bb84_realistic_v2 builds, for each run, a network
\* whose quantum channel length is fibre_length, whose dephase rate is
\* dephase_rate, whose memory size is key_size, whose T1/T2 constants are
\* t_time, whose source bias is q_source_probs and whose loss is loss: no
\* argument is bound to another configuration field.
C39_ArgumentsBound ==
    (driver = "bb84_realistic_v2" /\ (exp_pc # "loop" \/ run > 0)) =>
        /\ BuiltFrom.length = args.fibre_length
        /\ BuiltFrom.dephase_rate = args.dephase_rate
        /\ BuiltFrom.memory_size = Num(key_size)
        /\ BuiltFrom.t_time = PassedTTime
        /\ BuiltFrom.q_source_probs = args.q_source_probs
        /\ BuiltFrom.loss = args.loss
        /\ net.method = "generate_noisy_network"

\* C40: BB84 encode / measure round trip on a noiseless channel: for every
\* bit and basis in {0, 1}, the qubit the sender encodes with (basis, bit),
\* measured by the receiver in the same basis, yields exactly that bit;
\* measured in the other basis it can yield either outcome.
C40_EncodeMeasureRoundTrip ==
    (variant = "bb84" /\ ~noisy) =>
        /\ r_pc = "measure" =>
              LET q == Head(r_qmem)
                  base == At(s_bases, q.idx)
                  bit == At(secret_key, q.idx)
              IN  /\ q.st = EncodeQubitProgram(base, bit)
                  /\ MeasureOutcomes(q.st, base, FALSE) = {bit}
                  /\ MeasureOutcomes(q.st, 1 - base, FALSE) = Bit
        /\ \A i \in 0..(Len(results) - 1) :
              At(r_bases, i) = At(s_bases, i) => At(results, i) = At(secret_key, i)

C40_Witness ==
    /\ variant = "bb84" /\ ~noisy
    /\ Len(results) = 2
    /\ At(r_bases, 0) = At(s_bases, 0) /\ At(results, 0) = At(secret_key, 0)
    /\ At(secret_key, 0) = 1 /\ At(s_bases, 0) = 1
    /\ At(r_bases, 1) # At(s_bases, 1) /\ At(results, 1) # At(secret_key, 1)

====
